---- MODULE Spec2Model ----
(***************************************************************************)
(* Model of the weather-insights workflow orchestrator                     *)
(* (backend/workflows/weather_workflow.py): one call of run_analysis or    *)
(* run_batch_analysis, the five LangGraph nodes each pipeline run goes     *)
(* through, the assembly of the WeatherInsightsResult and the gathering of *)
(* a batch.                                                                *)
(*                                                                         *)
(* Python values are modelled as follows.  Optional[T]: None is <<>> and a *)
(* present value v is <<v>>.  A list is a sequence.  A string built by an  *)
(* f-string is the sequence of its parts, so the empty string is <<>>.     *)
(* The pydantic objects returned by the external collaborators are tokens. *)
(***************************************************************************)
EXTENDS Integers, Sequences, FiniteSets, TLC

\* ------------------------------------------------------------------ bounds

\* Largest number of locations of one run_batch_analysis call.
MaxBatch == 2

\* The number of calls of _create_audience_prompt, over both agents, that are
\* followed.
MaxCalls == 2

\* The longest list of weather records handed to the rule-based validator.
MaxRecords == 2

\* The largest number of documents in the knowledge collection whose
\* statistics are reported.
MaxPoints == 3

\* The longest list of recommendations of arbitrary priority and timing,
\* and the longest list of recommendations of the two extreme ranks, handed
\* to the action checklist.
MaxMixed == 3

MaxRecommendations == 11

\* ------------------------------------------------------------ Python values

None == <<>>

Some(v) == <<v>>

\* bool(x) of an Optional[float]: None and 0.0 are falsy.
TruthyFloat(o) == o # None /\ o[1] # 0

\* bool(x) of an Optional[pydantic model]: only None is falsy.
TruthyObj(o) == o # None

\* bool(x) of an Optional[str]: None and "" are falsy.
TruthyStr(o) == o # None /\ o[1] # <<>>

\* ------------------------------------------------------------------ inputs

Locations == {"Manila", "Nowhere"}

Audiences == {"general", "farmers"}

\* Caller supplied coordinates (run_analysis only): absent, zero, non-zero.
CoordInputs == {None, Some(0), Some(14)}

\* What get_coordinates returns when it succeeds.
GeocodedLat == 14

GeocodedLon == 121

Runs == 1..MaxBatch

\* ------------------------------------------------------------- the workflow

\* Node names of _build_workflow, and END.
Nodes == {"fetch_weather", "analyze_data", "forecast_analysis",
          "retrieve_knowledge", "generate_advice"}

END == "END"

\* workflow.set_entry_point
EntryPoint == "fetch_weather"

\* Edge with the edges of the two analysis nodes exchanged: the forecast
\* analysis is wired before the data analysis.
Edge_swapped(node) ==
    CASE node = "fetch_weather" -> "forecast_analysis"
      [] node = "forecast_analysis" -> "analyze_data"
      [] node = "analyze_data" -> "retrieve_knowledge"
      [] node = "retrieve_knowledge" -> "generate_advice"
      [] node = "generate_advice" -> END

\* Edge with an edge from the forecast analysis straight to the advice
\* node: the knowledge retrieval is never invoked.
Edge_skips_retrieval(node) ==
    CASE node = "fetch_weather" -> "analyze_data"
      [] node = "analyze_data" -> "forecast_analysis"
      [] node = "forecast_analysis" -> "generate_advice"
      [] node = "retrieve_knowledge" -> "generate_advice"
      [] node = "generate_advice" -> END

\* workflow.add_edge(a, b): the successor of each node, as in the source.
Edge(node) ==
    CASE node = "fetch_weather" -> "analyze_data"
      [] node = "analyze_data" -> "forecast_analysis"
      [] node = "forecast_analysis" -> "retrieve_knowledge"
      [] node = "retrieve_knowledge" -> "generate_advice"
      [] node = "generate_advice" -> END

\* initial_state of run_analysis.
InitialState(location, audience, latitude, longitude) ==
    [location |-> location,
     latitude |-> latitude,
     longitude |-> longitude,
     current_weather |-> None,
     forecast_data |-> None,
     data_analysis |-> None,
     forecast_analysis |-> None,
     advice_report |-> None,
     rag_knowledge |-> None,
     error |-> None,
     audience |-> audience]

\* The WorkflowState of a run that has not been called yet.
NoState == InitialState("", "", None, None)

\* ------------------------------------------------- external collaborators

\* The place names the geocoding provider has a match for; for any other
\* name it returns an empty list.
KnownCities == {"Manila"}

\* One outcome of the weather provider for a Fetch stage of city_name: the
\* geocoding call (a match, no match, or a transport/status error), the two
\* concurrent requests, and which of them raises first when both fail.
FetchOutcomes(city_name) ==
    [geo : IF city_name \in KnownCities
           THEN {"ok", "error"}
           ELSE {"notfound", "error"},
     cur : {"ok", "error"},
     fc : {"ok", "error"},
     first : {"cur", "fc"}]

\* One outcome of the text-generation calls of a stage: the stage's agent
\* returns its result, or a call raises.
LlmOutcomes == {"ok", "error"}

\* One outcome of the knowledge store for a retrieval: documents are found,
\* nothing is found, or the store fails.
RagOutcomes == {"hits", "empty", "store_error"}

\* str(e) of the exception get_coordinates raises.
GeocodeExc(geo, city_name) ==
    IF geo = "notfound"
    THEN <<"City not found: ", city_name>>
    ELSE <<"HTTPStatusError: geocoding">>

\* str(e) of the exception asyncio.gather propagates: that of the request
\* that raises first.
GatherExc(o) ==
    IF o.cur = "error" /\ (o.fc = "ok" \/ o.first = "cur")
    THEN <<"HTTPStatusError: weather">>
    ELSE <<"HTTPStatusError: forecast">>

\* search_knowledge catches every exception of the store and returns []:
\* the merged list get_contextual_knowledge returns is empty unless some
\* search found documents.
get_contextual_knowledge(o) ==
    IF o = "hits" THEN <<"RAGResult">> ELSE <<>>

\* ------------------------------------------------------------- the stages
\* Each stage maps the state and the outcome of its external calls to the
\* state it returns and the set of external calls it issued.

StageResult(st, calls) == [st |-> st, calls |-> calls]

\* _fetch_weather_data awaiting the two requests one after the other and
\* storing the snapshot before the forecast has arrived: a forecast failure
\* leaves current_weather populated.
_fetch_weather_data_sequential(state, o) ==
    LET needGeo == ~TruthyFloat(state.latitude) \/ ~TruthyFloat(state.longitude)
        geoCalls == IF needGeo THEN {"geocode"} ELSE {}
        located == IF needGeo
                   THEN [state EXCEPT !.latitude = Some(GeocodedLat),
                                      !.longitude = Some(GeocodedLon)]
                   ELSE state
    IN  IF needGeo /\ o.geo # "ok"
        THEN StageResult(
                 [state EXCEPT !.error =
                     Some(<<"Weather data fetch failed: ">>
                          \o GeocodeExc(o.geo, state.location))],
                 geoCalls)
        ELSE IF o.cur # "ok"
        THEN StageResult(
                 [located EXCEPT !.error =
                     Some(<<"Weather data fetch failed: ",
                            "HTTPStatusError: weather">>)],
                 geoCalls \cup {"weather"})
        ELSE IF o.fc # "ok"
        THEN StageResult(
                 [located EXCEPT !.current_weather = Some("WeatherData"),
                                 !.error =
                     Some(<<"Weather data fetch failed: ",
                            "HTTPStatusError: forecast">>)],
                 geoCalls \cup {"weather", "forecast"})
        ELSE StageResult(
                 [located EXCEPT !.current_weather = Some("WeatherData"),
                                 !.forecast_data = Some("ForecastData")],
                 geoCalls \cup {"weather", "forecast"})

\* Node 1.
_fetch_weather_data(state, o) ==
    LET needGeo == ~TruthyFloat(state.latitude) \/ ~TruthyFloat(state.longitude)
        geoCalls == IF needGeo THEN {"geocode"} ELSE {}
        located == IF needGeo
                   THEN [state EXCEPT !.latitude = Some(GeocodedLat),
                                      !.longitude = Some(GeocodedLon)]
                   ELSE state
    IN  IF needGeo /\ o.geo # "ok"
        THEN StageResult(
                 [state EXCEPT !.error =
                     Some(<<"Weather data fetch failed: ">>
                          \o GeocodeExc(o.geo, state.location))],
                 geoCalls)
        ELSE IF o.cur = "ok" /\ o.fc = "ok"
        THEN StageResult(
                 [located EXCEPT !.current_weather = Some("WeatherData"),
                                 !.forecast_data = Some("ForecastData")],
                 geoCalls \cup {"weather", "forecast"})
        ELSE StageResult(
                 [located EXCEPT !.error =
                     Some(<<"Weather data fetch failed: ">> \o GatherExc(o))],
                 geoCalls \cup {"weather", "forecast"})

\* A variant that hands the (missing) data to the agent before it looks at
\* what it was given.
_analyze_data_quality_unchecked(state, o) ==
    IF ~TruthyObj(state.current_weather) \/ ~TruthyObj(state.forecast_data)
    THEN StageResult(
             [state EXCEPT !.error = Some(<<"Data analysis failed: ", "LLMError">>)],
             {"llm"})
    ELSE IF o = "ok"
    THEN StageResult([state EXCEPT !.data_analysis = Some("WeatherAnalysis")],
                     {"llm"})
    ELSE StageResult(
             [state EXCEPT !.error = Some(<<"Data analysis failed: ", "LLMError">>)],
             {"llm"})

\* Node 2.
_analyze_data_quality(state, o) ==
    IF ~TruthyObj(state.current_weather) \/ ~TruthyObj(state.forecast_data)
    THEN StageResult(
             [state EXCEPT !.error = Some(<<"Missing weather data for analysis">>)],
             {})
    ELSE IF o = "ok"
    THEN StageResult([state EXCEPT !.data_analysis = Some("WeatherAnalysis")],
                     {"llm"})
    ELSE StageResult(
             [state EXCEPT !.error = Some(<<"Data analysis failed: ", "LLMError">>)],
             {"llm"})

\* A variant whose successful stage resets error.
_analyze_forecast_clears_error(state, o) ==
    IF ~TruthyObj(state.current_weather) \/ ~TruthyObj(state.forecast_data)
    THEN StageResult(
             [state EXCEPT !.error =
                 Some(<<"Missing weather data for forecast analysis">>)],
             {})
    ELSE IF o = "ok"
    THEN StageResult([state EXCEPT !.forecast_analysis = Some("ForecastAnalysis"),
                                   !.error = None],
                     {"llm"})
    ELSE StageResult(
             [state EXCEPT !.error =
                 Some(<<"Forecast analysis failed: ", "LLMError">>)],
             {"llm"})

\* Node 3.
_analyze_forecast(state, o) ==
    IF ~TruthyObj(state.current_weather) \/ ~TruthyObj(state.forecast_data)
    THEN StageResult(
             [state EXCEPT !.error =
                 Some(<<"Missing weather data for forecast analysis">>)],
             {})
    ELSE IF o = "ok"
    THEN StageResult([state EXCEPT !.forecast_analysis = Some("ForecastAnalysis")],
                     {"llm"})
    ELSE StageResult(
             [state EXCEPT !.error =
                 Some(<<"Forecast analysis failed: ", "LLMError">>)],
             {"llm"})

\* The calls of the retrieval stage: the searches, and the mark of a search
\* in which the store raised.
SearchCalls(o) ==
    IF o = "store_error" THEN {"search", "search_raised"} ELSE {"search"}

\* A variant in which an exception of the store reaches the except clause of
\* the node.
_retrieve_relevant_knowledge_store_fatal(state, o) ==
    IF ~TruthyObj(state.current_weather) \/ ~TruthyObj(state.forecast_analysis)
    THEN StageResult(
             [state EXCEPT !.error = Some(<<"Missing data for knowledge retrieval">>)],
             {})
    ELSE IF o = "store_error"
    THEN StageResult(
             [state EXCEPT !.error =
                 Some(<<"Knowledge retrieval failed: ", "StoreError">>)],
             SearchCalls(o))
    ELSE StageResult(
             [state EXCEPT !.rag_knowledge = Some(get_contextual_knowledge(o))],
             SearchCalls(o))

\* A variant that takes an empty list of knowledge for a failure.
_retrieve_relevant_knowledge_needs_items(state, o) ==
    IF ~TruthyObj(state.current_weather) \/ ~TruthyObj(state.forecast_analysis)
    THEN StageResult(
             [state EXCEPT !.error = Some(<<"Missing data for knowledge retrieval">>)],
             {})
    ELSE IF get_contextual_knowledge(o) = <<>>
    THEN StageResult(
             [state EXCEPT !.error =
                 Some(<<"Knowledge retrieval failed: ", "no items">>)],
             SearchCalls(o))
    ELSE StageResult(
             [state EXCEPT !.rag_knowledge = Some(get_contextual_knowledge(o))],
             SearchCalls(o))

\* Node 4.
_retrieve_relevant_knowledge(state, o) ==
    IF ~TruthyObj(state.current_weather) \/ ~TruthyObj(state.forecast_analysis)
    THEN StageResult(
             [state EXCEPT !.error = Some(<<"Missing data for knowledge retrieval">>)],
             {})
    ELSE StageResult(
             [state EXCEPT !.rag_knowledge = Some(get_contextual_knowledge(o))],
             SearchCalls(o))

\* _generate_recommendations with "and" for "or" in its check of the inputs:
\* it goes on when only one of the two analyses is missing.
_generate_recommendations_and(state, o) ==
    IF ~TruthyObj(state.data_analysis) /\ ~TruthyObj(state.forecast_analysis)
    THEN StageResult(
             [state EXCEPT !.error =
                 Some(<<"Missing analysis data for advice generation">>)],
             {})
    ELSE IF o = "ok"
    THEN StageResult([state EXCEPT !.advice_report = Some("AdviceReport")],
                     {"llm"})
    ELSE StageResult(
             [state EXCEPT !.error =
                 Some(<<"Advice generation failed: ", "LLMError">>)],
             {"llm"})

\* _generate_recommendations returning at once when error is already set, so
\* that an earlier stage's message is kept.
_generate_recommendations_early_exit(state, o) ==
    IF TruthyStr(state.error)
    THEN StageResult(state, {})
    ELSE IF ~TruthyObj(state.data_analysis) \/ ~TruthyObj(state.forecast_analysis)
    THEN StageResult(
             [state EXCEPT !.error =
                 Some(<<"Missing analysis data for advice generation">>)],
             {})
    ELSE IF o = "ok"
    THEN StageResult([state EXCEPT !.advice_report = Some("AdviceReport")],
                     {"llm"})
    ELSE StageResult(
             [state EXCEPT !.error =
                 Some(<<"Advice generation failed: ", "LLMError">>)],
             {"llm"})

\* Node 5.
_generate_recommendations(state, o) ==
    IF ~TruthyObj(state.data_analysis) \/ ~TruthyObj(state.forecast_analysis)
    THEN StageResult(
             [state EXCEPT !.error =
                 Some(<<"Missing analysis data for advice generation">>)],
             {})
    ELSE IF o = "ok"
    THEN StageResult([state EXCEPT !.advice_report = Some("AdviceReport")],
                     {"llm"})
    ELSE StageResult(
             [state EXCEPT !.error =
                 Some(<<"Advice generation failed: ", "LLMError">>)],
             {"llm"})

\* ------------------------------------------------------------- the results

\* What a call yields to its caller: a value, or an exception.
Return(v) == [kind |-> "return", value |-> Some(v), exc |-> <<>>]

Raise(e) == [kind |-> "raise", value |-> None, exc |-> e]

\* A call that has not finished.
Pending == [kind |-> "pending", value |-> None, exc |-> <<>>]

\* The constructor of the pydantic model WeatherInsightsResult.  The fields
\* data_quality, forecast_insights, recommendations (models) and
\* relevant_knowledge (a list) are declared without Optional and without a
\* default: None for any of them is a ValidationError.
WeatherInsightsResult(location, data_quality, forecast_insights, recommendations, relevant_knowledge, success, error_message) ==
    IF \/ data_quality = None
       \/ forecast_insights = None
       \/ recommendations = None
       \/ relevant_knowledge = None
    THEN Raise(<<"ValidationError">>)
    ELSE Return([location |-> location,
                 data_quality |-> data_quality,
                 forecast_insights |-> forecast_insights,
                 recommendations |-> recommendations,
                 relevant_knowledge |-> relevant_knowledge[1],
                 success |-> success,
                 error_message |-> error_message])

\* run_analysis after workflow.ainvoke: the check for errors and the two
\* result constructions.  An exception of the constructor leaves run_analysis.
AssembleResult(location, final_state) ==
    IF TruthyStr(final_state.error)
    THEN WeatherInsightsResult(location, None, None, None, Some(<<>>),
                               FALSE, final_state.error)
    ELSE WeatherInsightsResult(location,
                               final_state.data_analysis,
                               final_state.forecast_analysis,
                               final_state.advice_report,
                               final_state.rag_knowledge,
                               TRUE, None)

\* The loop of run_batch_analysis over the gathered results, from index i on:
\* an exception stands for a failure result built from locations[i]; an
\* exception of that construction leaves run_batch_analysis.
RECURSIVE FinalResults(_, _, _, _)
FinalResults(locations, results, i, final_results) ==
    IF i > Len(results)
    THEN Return(final_results)
    ELSE IF results[i].kind = "raise"
    THEN LET made == WeatherInsightsResult(locations[i], None, None, None,
                                           Some(<<>>), FALSE,
                                           Some(results[i].exc))
         IN  IF made.kind = "raise"
             THEN made
             ELSE FinalResults(locations, results, i + 1,
                               Append(final_results, made.value[1]))
    ELSE FinalResults(locations, results, i + 1,
                      Append(final_results, results[i].value[1]))

\* ------------------------------------------------------------------ state

VARIABLES
    call,       \* the call under way: run_analysis or run_batch_analysis
    pc,         \* per run: "idle", the node it is at, END, or "done"
    state,      \* per run: its WorkflowState
    log,        \* per run: what each completed stage did, in order
    outcome,    \* per run: what run_analysis yielded
    batch,      \* what run_batch_analysis yielded
    fetch,      \* one Fetch stage, await by await
    prompts,    \* the audience-prompt caches of the agents and their callers
    retrieval,  \* one get_contextual_knowledge call, search by search
    processor,  \* one call of a stage processor (agent), call by call
    quality,    \* one scoring of the data-quality processor
    risks,      \* one risk assessment of the forecast processor
    checklist,  \* one action checklist of the advice processor
    status,     \* one call of get_workflow_status
    rag_service, \* the knowledge store, its initialization task, the event loop
    contacts    \* one list of contact suggestions of the advice processor

vars ==
    <<call, pc, state, log, outcome, batch, fetch, prompts, retrieval,
      processor, quality, risks, checklist, status, rag_service, contacts>>

\* The state of the parts a specification does not look into.
NotModelled == [pc |-> "idle"]

\* The parts followed a step at a time in specifications of their own.
stepVars == <<fetch, prompts, retrieval>>

unitVars == <<processor, quality, risks, checklist, status, rag_service, contacts>>

StepsNotModelled ==
    /\ fetch = NotModelled
    /\ prompts = NotModelled
    /\ retrieval = NotModelled

UnitsNotModelled ==
    /\ processor = NotModelled
    /\ quality = NotModelled
    /\ risks = NotModelled
    /\ checklist = NotModelled
    /\ status = NotModelled
    /\ rag_service = NotModelled
    /\ contacts = NotModelled

\* The calls a caller can make.
RunCalls ==
    [op : {"run_analysis"},
     locations : {<<l>> : l \in Locations},
     audience : Audiences,
     latitude : CoordInputs,
     longitude : CoordInputs]

LocationLists == UNION {[1..n -> Locations] : n \in 0..MaxBatch}

\* run_batch_analysis passes no coordinates to run_analysis.
BatchCalls ==
    [op : {"run_batch_analysis"},
     locations : LocationLists,
     audience : Audiences,
     latitude : {None},
     longitude : {None}]

\* The runs of the call: one per location.
Active == 1..Len(call.locations)

Init ==
    /\ call \in RunCalls \cup BatchCalls
    /\ pc = [r \in Runs |-> "idle"]
    /\ state = [r \in Runs |-> NoState]
    /\ log = [r \in Runs |-> <<>>]
    /\ outcome = [r \in Runs |-> Pending]
    /\ batch = Pending
    /\ fetch = NotModelled
    /\ prompts = NotModelled
    /\ retrieval = NotModelled
    /\ UnitsNotModelled

\* The output field(s) each node is to populate.
Output(node, st) ==
    CASE node = "fetch_weather" -> <<st.current_weather, st.forecast_data>>
      [] node = "analyze_data" -> <<st.data_analysis>>
      [] node = "forecast_analysis" -> <<st.forecast_analysis>>
      [] node = "retrieve_knowledge" -> <<st.rag_knowledge>>
      [] node = "generate_advice" -> <<st.advice_report>>

\* run_analysis is called for location r: it builds the initial state and
\* hands it to the compiled workflow, which is at its entry point.
RunAnalysis(r) ==
    /\ r \in Active
    /\ pc[r] = "idle"
    /\ state' = [state EXCEPT ![r] =
                    InitialState(call.locations[r], call.audience,
                                 call.latitude, call.longitude)]
    /\ pc' = [pc EXCEPT ![r] = EntryPoint]
    /\ UNCHANGED <<call, log, outcome, batch>>
    /\ UNCHANGED <<fetch, prompts, retrieval, unitVars>>

\* A variant whose runs in progress share one state record.
RunNode_shared_state(r, node, res) ==
    /\ pc[r] = node
    /\ state' = [q \in Runs |->
                    IF pc[q] \in {"idle", "done"} THEN state[q] ELSE res.st]
    /\ log' = [log EXCEPT ![r] = Append(@,
                  [node |-> node,
                   set_error |-> res.st.error # state[r].error,
                   wrote_output |-> Output(node, res.st) # Output(node, state[r]),
                   calls |-> res.calls])]
    /\ pc' = [pc EXCEPT ![r] = Edge(node)]
    /\ UNCHANGED <<call, outcome, batch>>
    /\ UNCHANGED <<fetch, prompts, retrieval, unitVars>>

\* The workflow runs the node run r is at: the node returns the state
\* res.st, and the workflow follows the node's edge.  A run's state record is
\* its own, so a node's suspensions at its awaits are not visible to the
\* other runs and the node is one step.
RunNode(r, node, res) ==
    /\ pc[r] = node
    /\ state' = [state EXCEPT ![r] = res.st]
    /\ log' = [log EXCEPT ![r] = Append(@,
                  [node |-> node,
                   set_error |-> res.st.error # state[r].error,
                   wrote_output |-> Output(node, res.st) # Output(node, state[r]),
                   calls |-> res.calls])]
    /\ pc' = [pc EXCEPT ![r] = Edge(node)]
    /\ UNCHANGED <<call, outcome, batch>>
    /\ UNCHANGED <<fetch, prompts, retrieval, unitVars>>

FetchWeatherData(r) ==
    \E o \in FetchOutcomes(state[r].location) :
        RunNode(r, "fetch_weather", _fetch_weather_data(state[r], o))

AnalyzeDataQuality(r) ==
    \E o \in LlmOutcomes :
        RunNode(r, "analyze_data", _analyze_data_quality(state[r], o))

AnalyzeForecast(r) ==
    \E o \in LlmOutcomes :
        RunNode(r, "forecast_analysis", _analyze_forecast(state[r], o))

RetrieveRelevantKnowledge(r) ==
    \E o \in RagOutcomes :
        RunNode(r, "retrieve_knowledge",
                   _retrieve_relevant_knowledge(state[r], o))

GenerateRecommendations(r) ==
    \E o \in LlmOutcomes :
        RunNode(r, "generate_advice", _generate_recommendations(state[r], o))

\* workflow.ainvoke has returned the final state: run_analysis assembles its
\* result, or the construction of the result raises.
RunAnalysisResult(r) ==
    /\ pc[r] = END
    /\ outcome' = [outcome EXCEPT ![r] =
                      AssembleResult(call.locations[r], state[r])]
    /\ pc' = [pc EXCEPT ![r] = "done"]
    /\ UNCHANGED <<call, state, log, batch>>
    /\ UNCHANGED <<fetch, prompts, retrieval, unitVars>>

\* asyncio.gather(*tasks, return_exceptions=True) has every run's value or
\* exception, in the order of the tasks: run_batch_analysis builds its list.
RunBatchAnalysisResult ==
    /\ call.op = "run_batch_analysis"
    /\ batch = Pending
    /\ \A r \in Active : pc[r] = "done"
    /\ batch' = FinalResults(call.locations,
                             [i \in Active |-> outcome[i]], 1, <<>>)
    /\ UNCHANGED <<call, pc, state, log, outcome>>
    /\ UNCHANGED <<fetch, prompts, retrieval, unitVars>>

Next ==
    \/ \E r \in Runs : RunAnalysis(r)
    \/ \E r \in Runs : FetchWeatherData(r)
    \/ \E r \in Runs : AnalyzeDataQuality(r)
    \/ \E r \in Runs : AnalyzeForecast(r)
    \/ \E r \in Runs : RetrieveRelevantKnowledge(r)
    \/ \E r \in Runs : GenerateRecommendations(r)
    \/ \E r \in Runs : RunAnalysisResult(r)
    \/ RunBatchAnalysisResult

Spec == Init /\ [][Next]_vars

\* The calls of one audience: the audience is handed on to the agents and
\* takes no part in the order of the stages.
FairInit == Init /\ call.audience = "general"

\* The workflow under the assumption that every external call eventually
\* returns or fails: whenever a run or the batch can be resumed, the event
\* loop eventually resumes one.
FairSpec == FairInit /\ [][Next]_vars /\ WF_vars(Next)

\* =================================================== the Fetch stage, stepwise
\* One execution of _fetch_weather_data for the call of run_analysis in
\* `call`, with every await of the node a step of its own: the geocoding
\* call, the two provider requests asyncio.gather runs as tasks, and the
\* resumption of the node when gather's future is done.

\* The workflow part of the state, which the stepwise specifications leave
\* as run_analysis found it.
workflowVars == <<call, pc, state, log, outcome, batch>>

\* The value of `call` where no call of the workflow is followed.
NoCall ==
    [op |-> "none", locations |-> <<>>, audience |-> "general",
     latitude |-> None, longitude |-> None]

WorkflowNotStarted ==
    /\ pc = [r \in Runs |-> "idle"]
    /\ state = [r \in Runs |-> NoState]
    /\ log = [r \in Runs |-> <<>>]
    /\ outcome = [r \in Runs |-> Pending]
    /\ batch = Pending

Requests == {"weather", "forecast"}

NoRequests == [q \in Requests |-> "unstarted"]

\* A variant that awaits the current conditions before it creates the
\* forecast request.
LaunchRequests_one_at_a_time(requests) ==
    [requests EXCEPT !["weather"] = "pending"]

\* asyncio.gather wraps both coroutines in tasks at once.
LaunchRequests(requests) ==
    [q \in Requests |-> "pending"]

\* gather's future is done: both tasks returned, or one raised.
GatherDone(f) ==
    \/ \A q \in Requests : f.requests[q] = "ok"
    \/ f.raised # None

\* A variant that keeps what the request that succeeded returned.
AfterGather_keep_partial(f) ==
    IF f.raised = None
    THEN [f.state EXCEPT !.current_weather = Some("WeatherData"),
                         !.forecast_data = Some("ForecastData")]
    ELSE [f.state EXCEPT
             !.current_weather =
                 IF f.requests["weather"] = "ok" THEN Some("WeatherData") ELSE None,
             !.forecast_data =
                 IF f.requests["forecast"] = "ok" THEN Some("ForecastData") ELSE None,
             !.error = Some(<<"Weather data fetch failed: ",
                              "HTTPStatusError: " \o f.raised[1]>>)]

\* The node resumes from `await asyncio.gather(...)`: it unpacks and stores
\* both results, or the exception of the first task that raised lands in
\* the except clause.
AfterGather(f) ==
    IF f.raised = None
    THEN [f.state EXCEPT !.current_weather = Some("WeatherData"),
                         !.forecast_data = Some("ForecastData")]
    ELSE [f.state EXCEPT !.error = Some(<<"Weather data fetch failed: ",
                                          "HTTPStatusError: " \o f.raised[1]>>)]

FetchInit ==
    /\ call \in RunCalls
    /\ WorkflowNotStarted
    /\ fetch = [pc |-> "entry",
                state |-> InitialState(call.locations[1], call.audience,
                                       call.latitude, call.longitude),
                geocodes |-> 0,
                requests |-> NoRequests,
                coords |-> None,
                raised |-> None]
    /\ prompts = NotModelled
    /\ retrieval = NotModelled
    /\ UnitsNotModelled

\* Lines 101-113 when the coordinates test passes the supplied ones on.
FetchWithSuppliedCoordinates ==
    /\ fetch.pc = "entry"
    /\ TruthyFloat(fetch.state.latitude) /\ TruthyFloat(fetch.state.longitude)
    /\ fetch' = [fetch EXCEPT
           !.pc = "gather",
           !.coords = Some(<<fetch.state.latitude[1], fetch.state.longitude[1]>>),
           !.requests = LaunchRequests(@)]
    /\ UNCHANGED <<workflowVars, prompts, retrieval, unitVars>>

\* Lines 102-103: the node awaits get_coordinates.
FetchCallsGeocoding ==
    /\ fetch.pc = "entry"
    /\ ~TruthyFloat(fetch.state.latitude) \/ ~TruthyFloat(fetch.state.longitude)
    /\ fetch' = [fetch EXCEPT !.pc = "geocoding", !.geocodes = @ + 1]
    /\ UNCHANGED <<workflowVars, prompts, retrieval, unitVars>>

\* get_coordinates returns or raises; on a return the node stores the pair
\* and goes on to gather.
GeocodingCompletes ==
    /\ fetch.pc = "geocoding"
    /\ \E o \in FetchOutcomes(fetch.state.location) :
          IF o.geo = "ok"
          THEN fetch' = [fetch EXCEPT
                   !.pc = "gather",
                   !.state = [@ EXCEPT !.latitude = Some(GeocodedLat),
                                       !.longitude = Some(GeocodedLon)],
                   !.coords = Some(<<GeocodedLat, GeocodedLon>>),
                   !.requests = LaunchRequests(@)]
          ELSE fetch' = [fetch EXCEPT
                   !.pc = "returned",
                   !.state = [@ EXCEPT !.error =
                       Some(<<"Weather data fetch failed: ">>
                            \o GeocodeExc(o.geo, fetch.state.location))]]
    /\ UNCHANGED <<workflowVars, prompts, retrieval, unitVars>>

\* One of the two tasks finishes.  gather does not cancel the other task
\* when one raises, so a task can also finish after the node has returned.
RequestCompletes(q) ==
    /\ fetch.pc \in {"gather", "returned"}
    /\ fetch.requests[q] = "pending"
    /\ \E res \in {"ok", "error"} :
          fetch' = [fetch EXCEPT
              !.requests[q] = res,
              !.raised = IF res = "error" /\ @ = None THEN Some(q) ELSE @]
    /\ UNCHANGED <<workflowVars, prompts, retrieval, unitVars>>

\* Lines 113-124.
FetchResumes ==
    /\ fetch.pc = "gather"
    /\ GatherDone(fetch)
    /\ fetch' = [fetch EXCEPT !.pc = "returned", !.state = AfterGather(fetch)]
    /\ UNCHANGED <<workflowVars, prompts, retrieval, unitVars>>

FetchNext ==
    \/ FetchWithSuppliedCoordinates
    \/ FetchCallsGeocoding
    \/ GeocodingCompletes
    \/ \E q \in Requests : RequestCompletes(q)
    \/ FetchResumes

FetchSpec == FetchInit /\ [][FetchNext]_vars

\* ============================================== the audience-prompt caches
\* The calls of _create_audience_prompt on the forecast agent and the advice
\* agent of one process.  The two agents are created once and shared by all
\* pipeline runs, which asyncio interleaves at every await: a call runs from
\* its cache test to `await self.llm.ainvoke` in one step and from the
\* resumption to its return in another.

Agents == {"forecast", "advice"}

Calls == 1..MaxCalls

\* What the text-generation backend can answer to the meta-generation
\* request: a text as a sequence of characters, " " being white space.
LlmResponses == {<<"P">>, <<" ", "P", " ">>, <<"Q">>}

RECURSIVE LStrip(_)
LStrip(text) ==
    IF text # <<>> /\ Head(text) = " " THEN LStrip(Tail(text)) ELSE text

RECURSIVE RStrip(_)
RStrip(text) ==
    IF text # <<>> /\ text[Len(text)] = " "
    THEN RStrip(SubSeq(text, 1, Len(text) - 1))
    ELSE text

\* str.strip()
Strip(text) == RStrip(LStrip(text))

\* ChatPromptTemplate.from_template
from_template(text) == [template |-> text]

\* self._audience_prompt_cache = {}
EmptyCache == [a \in Audiences |-> None]

\* A variant that never finds an entry.
CacheLookup_always_miss(cache, audience) == None

\* `if audience in self._audience_prompt_cache: return ...[audience]`:
\* the entry, or None when there is none.
CacheLookup(cache, audience) == cache[audience]

\* A variant that builds a fresh cache holding the new entry only.
CacheStore_reset(cache, audience, prompt) ==
    [EmptyCache EXCEPT ![audience] = Some(prompt)]

\* A variant that returns the prompt without keeping it.
CacheStore_dropped(cache, audience, prompt) == cache

\* `self._audience_prompt_cache[audience] = audience_prompt`
CacheStore(cache, audience, prompt) ==
    [cache EXCEPT ![audience] = Some(prompt)]

NotCalled ==
    [pc |-> "idle", agent |-> "", audience |-> "", entry_at_start |-> None,
     after |-> {}, failed |-> {}, issued |-> FALSE, result |-> None]

PromptInit ==
    /\ call = NoCall
    /\ WorkflowNotStarted
    /\ fetch = NotModelled
    /\ prompts = [cache |-> [ag \in Agents |-> EmptyCache],
                  first |-> [ag \in Agents |-> EmptyCache],
                  calls |-> [c \in Calls |-> NotCalled]]
    /\ retrieval = NotModelled
    /\ UnitsNotModelled

\* Call c begins on agent ag for audience: on a hit it returns the entry at
\* once, otherwise it issues the meta-generation call and is suspended.
\* entry_at_start, after and failed record what the cache held and which
\* calls had returned and had raised when the call began.
CreateAudiencePrompt(c, ag, audience) ==
    /\ prompts.calls[c].pc = "idle"
    /\ LET found == CacheLookup(prompts.cache[ag], audience)
           begun == [NotCalled EXCEPT
                        !.agent = ag,
                        !.audience = audience,
                        !.entry_at_start = prompts.cache[ag][audience],
                        !.after = {d \in Calls : prompts.calls[d].pc = "returned"},
                        !.failed = {d \in Calls : prompts.calls[d].pc = "raised"}]
       IN  prompts' = [prompts EXCEPT !.calls[c] =
               IF found # None
               THEN [begun EXCEPT !.pc = "returned", !.result = found]
               ELSE [begun EXCEPT !.pc = "awaiting_llm", !.issued = TRUE]]
    /\ UNCHANGED <<workflowVars, fetch, retrieval, unitVars>>

\* The meta-generation call of c returns: the stripped text becomes the
\* template, which is stored under the audience and returned.
LlmReturns(c) ==
    /\ prompts.calls[c].pc = "awaiting_llm"
    /\ \E response \in LlmResponses :
          LET ag == prompts.calls[c].agent
              audience == prompts.calls[c].audience
              audience_prompt == from_template(Strip(response))
          IN  prompts' = [prompts EXCEPT
                  !.cache[ag] = CacheStore(@, audience, audience_prompt),
                  !.first[ag][audience] =
                      IF @ = None THEN Some(audience_prompt) ELSE @,
                  !.calls[c] = [@ EXCEPT !.pc = "returned",
                                         !.result = Some(audience_prompt)]]
    /\ UNCHANGED <<workflowVars, fetch, retrieval, unitVars>>

\* A variant that stores the failed request's audience with an empty
\* template.
LlmRaises_stores_entry(c) ==
    /\ prompts.calls[c].pc = "awaiting_llm"
    /\ prompts' = [prompts EXCEPT
           !.cache[prompts.calls[c].agent] =
               CacheStore(@, prompts.calls[c].audience, from_template(<<>>)),
           !.calls[c].pc = "raised"]
    /\ UNCHANGED <<workflowVars, fetch, retrieval, unitVars>>

\* The meta-generation call of c raises: the exception leaves
\* _create_audience_prompt before the store.
LlmRaises(c) ==
    /\ prompts.calls[c].pc = "awaiting_llm"
    /\ prompts' = [prompts EXCEPT !.calls[c].pc = "raised"]
    /\ UNCHANGED <<workflowVars, fetch, retrieval, unitVars>>

PromptNext ==
    \/ \E c \in Calls, ag \in Agents, audience \in Audiences :
          CreateAudiencePrompt(c, ag, audience)
    \/ \E c \in Calls : LlmReturns(c)
    \/ \E c \in Calls : LlmRaises(c)

PromptSpec == PromptInit /\ [][PromptNext]_vars

\* ==================================================== knowledge retrieval
\* One call of get_contextual_knowledge (services/rag_service.py): the
\* searches it issues one after the other, each a step, and the merge, sort
\* and truncation of what they returned.

\* The audiences the query context table of get_contextual_knowledge names.
RagAudiences == {"farmers", "officials", "general"}

\* Relevance scores, in tenths.
Scores == {6, 9}

DirectLimit == 3
BestPracticeLimit == 2
AdvisoryLimit == 2
TopK == 5

SearchRequest(query, limit, category_filter) ==
    [query |-> query, limit |-> limit, category_filter |-> category_filter]

\* A variant that runs the category search of the farmers for everybody.
SearchPlan_every_audience(audience) ==
    <<SearchRequest("enhanced_query", DirectLimit, None),
      SearchRequest("weather_condition", BestPracticeLimit, Some("best_practice")),
      SearchRequest("weather_condition", AdvisoryLimit, Some("weather_advisory"))>>

\* The calls of search_knowledge, in the order they are made.
SearchPlan(audience) ==
    <<SearchRequest("enhanced_query", DirectLimit, None)>>
    \o (IF audience = "farmers"
        THEN <<SearchRequest("weather_condition", BestPracticeLimit,
                             Some("best_practice"))>>
        ELSE <<>>)
    \o <<SearchRequest("weather_condition", AdvisoryLimit,
                       Some("weather_advisory"))>>

RAGResult(content, score) == [content |-> content, score |-> score]

\* The content texts among results.  A content text is a number; the code
\* only tests content texts for equality, so a text not met before is given
\* the next number, and the texts met so far are 1..Known(results).
Known(results) == Cardinality({results[i].content : i \in 1..Len(results)})

\* What one search_knowledge call with the given limit can return after
\* `known` content texts have been met: at most limit results, in any order
\* of score, each with a text met before or a new one; [] when the store
\* finds nothing or raises.
RECURSIVE SearchResults(_, _)
SearchResults(limit, known) ==
    IF limit = 0
    THEN {<<>>}
    ELSE {<<>>} \cup
         UNION {{<<RAGResult(c, sc)>> \o rest :
                    rest \in SearchResults(limit - 1, IF c > known THEN c ELSE known)} :
                <<c, sc>> \in (1..(known + 1)) \X Scores}

\* The position of content among the entries of unique_results, 0 if none.
KeyIndex(unique_results, content) ==
    IF \E j \in 1..Len(unique_results) : unique_results[j].content = content
    THEN CHOOSE j \in 1..Len(unique_results) : unique_results[j].content = content
    ELSE 0

\* A variant that keeps the first result met for a content text.
Keep_first(unique_results, result) ==
    LET j == KeyIndex(unique_results, result.content)
    IN  IF j = 0 THEN Append(unique_results, result) ELSE unique_results

\* One turn of the loop over results: the dict, as the sequence of its
\* values in insertion order, gets a new key at the end or a new value in
\* place.
Keep(unique_results, result) ==
    LET j == KeyIndex(unique_results, result.content)
    IN  IF j = 0
        THEN Append(unique_results, result)
        ELSE IF result.score > unique_results[j].score
        THEN [unique_results EXCEPT ![j] = result]
        ELSE unique_results

RECURSIVE Unique(_, _)
Unique(results, unique_results) ==
    IF results = <<>>
    THEN unique_results
    ELSE Unique(Tail(results), Keep(unique_results, Head(results)))

\* A variant that sorts by ascending score.
InsertByScore_ascending(sorted, result) ==
    LET n == Cardinality({j \in 1..Len(sorted) : sorted[j].score <= result.score})
    IN  SubSeq(sorted, 1, n) \o <<result>> \o SubSeq(sorted, n + 1, Len(sorted))

\* One insertion of the stable descending sort: result goes behind the
\* entries already placed whose score is at least its own.
InsertByScore(sorted, result) ==
    LET n == Cardinality({j \in 1..Len(sorted) : sorted[j].score >= result.score})
    IN  SubSeq(sorted, 1, n) \o <<result>> \o SubSeq(sorted, n + 1, Len(sorted))

\* sorted(values, key=lambda x: x.score, reverse=True)
RECURSIVE SortedByScore(_, _)
SortedByScore(values, sorted) ==
    IF values = <<>>
    THEN sorted
    ELSE SortedByScore(Tail(values), InsertByScore(sorted, Head(values)))

\* values[:k]
Top(values, k) == SubSeq(values, 1, IF Len(values) < k THEN Len(values) ELSE k)

\* Lines 274-280.
MergeResults(results) == Top(SortedByScore(Unique(results, <<>>), <<>>), TopK)

RagInit ==
    /\ call = NoCall
    /\ WorkflowNotStarted
    /\ fetch = NotModelled
    /\ prompts = NotModelled
    /\ retrieval \in [pc : {"searching"},
                      audience : RagAudiences,
                      searches : {<<>>},
                      results : {<<>>},
                      returned : {<<>>}]
    /\ UnitsNotModelled

\* The next search_knowledge call of the plan is made and its results are
\* appended to results.
SearchKnowledge ==
    /\ retrieval.pc = "searching"
    /\ Len(retrieval.searches) < Len(SearchPlan(retrieval.audience))
    /\ LET request == SearchPlan(retrieval.audience)[Len(retrieval.searches) + 1]
       IN  \E found \in SearchResults(request.limit, Known(retrieval.results)) :
              retrieval' = [retrieval EXCEPT
                  !.searches = Append(@, request),
                  !.results = @ \o found]
    /\ UNCHANGED <<workflowVars, fetch, prompts, unitVars>>

\* After the last search: deduplicate, sort, truncate, return.
ReturnKnowledge ==
    /\ retrieval.pc = "searching"
    /\ Len(retrieval.searches) = Len(SearchPlan(retrieval.audience))
    /\ retrieval' = [retrieval EXCEPT
           !.pc = "returned",
           !.returned = MergeResults(retrieval.results)]
    /\ UNCHANGED <<workflowVars, fetch, prompts, unitVars>>

RagNext ==
    \/ SearchKnowledge
    \/ ReturnKnowledge

RagSpec == RagInit /\ [][RagNext]_vars

\* ================================================= the data-quality scores
\* One call of DataAgent.process_weather_data (agents/data_agent.py) from
\* the answer of the text-generation backend on: the parsing of the answer,
\* the rule-based validation of the records and the construction of the
\* WeatherAnalysis.  A score is a fraction [num, den]; 0/0 is the float nan.

Frac(num, den) == [num |-> num, den |-> den]

NaN == Frac(0, 0)

\* a > b for floats: false when either is nan.
Greater(a, b) ==
    /\ a # NaN
    /\ b # NaN
    /\ a.num * b.den > b.num * a.den

\* a >= b for floats.
AtLeast(a, b) ==
    /\ a # NaN
    /\ b # NaN
    /\ a.num * b.den >= b.num * a.den

\* max(a, b) of Python: b only when b > a.
Max2(a, b) == IF Greater(b, a) THEN b ELSE a

\* The fields the validator looks at and the readings met with: for each
\* field a reading at the edge of the accepted range and one beyond it.
CheckedFields == {"temperature", "humidity", "pressure", "wind_speed"}

Readings ==
    [temperature |-> {60, 61}, humidity |-> {100, 101},
     pressure |-> {799}, wind_speed |-> {50}]

\* A record: a dict with some of the checked fields.
Records ==
    UNION {{r \in [present -> UNION {Readings[f] : f \in present}] :
               \A f \in present : r[f] \in Readings[f]} :
           present \in SUBSET CheckedFields}

\* WeatherData.dict(): every field is there.
WeatherDataDicts == {r \in Records : DOMAIN r = CheckedFields}

RecordLists(longest) == UNION {[1..n -> Records] : n \in 0..longest}

\* What process_weather_data is given: a WeatherData or a list of dicts.
DataInputs(longest) ==
    {[type |-> "WeatherData", data |-> r] : r \in WeatherDataDicts}
    \cup {[type |-> "list", data |-> l] : l \in RecordLists(longest)}

\* The checks of one record, in the order made: <<field, flagged>>.
Check(record, field) ==
    IF field \notin DOMAIN record
    THEN <<>>
    ELSE LET v == record[field]
         IN  <<[field |-> field,
                flagged |-> CASE field = "temperature" -> v < -60 \/ v > 60
                              [] field = "humidity" -> v < 0 \/ v > 100
                              [] field = "pressure" -> v < 800 \/ v > 1200
                              [] field = "wind_speed" -> v > 50]>>

RecordChecks(record) ==
    Check(record, "temperature") \o Check(record, "humidity")
    \o Check(record, "pressure") \o Check(record, "wind_speed")

RECURSIVE AllChecks(_)
AllChecks(records) ==
    IF records = <<>>
    THEN <<>>
    ELSE RecordChecks(Head(records)) \o AllChecks(Tail(records))

\* A variant that divides by the number of checks even when there is none
\* (the quotient 0/0 taken for 0, the score for 1 - 1).
ValidationScore_no_guard(issues, total_checks) ==
    IF total_checks = 0 THEN Frac(0, 1) ELSE Frac(total_checks - issues, total_checks)

\* score = 1.0 - (issues / max(total_checks, 1))
ValidationScore(issues, total_checks) ==
    LET den == IF total_checks > 1 THEN total_checks ELSE 1
    IN  Frac(den - issues, den)

\* _validate_weather_data: a single dict is taken for a list of one.
_validate_weather_data(input) ==
    LET data_dict == IF input.type = "WeatherData" THEN <<input.data>> ELSE input.data
        checks == AllChecks(data_dict)
        issues == Cardinality({i \in 1..Len(checks) : checks[i].flagged})
    IN  [score |-> ValidationScore(issues, Len(checks)),
         issues |-> issues,
         total_checks |-> Len(checks)]

\* The texts met behind "QUALITY SCORE:" and what float() makes of them.
ScoreTexts == {"0.3", "1.5", "-0.5", "nan", "8/10"}

ParseFloat(text) ==
    CASE text = "0.3" -> Some(Frac(3, 10))
      [] text = "1.5" -> Some(Frac(15, 10))
      [] text = "-0.5" -> Some(Frac(-5, 10))
      [] text = "nan" -> Some(NaN)
      [] OTHER -> None

\* The answers of the backend, as the texts of their QUALITY SCORE lines.
AiResponses ==
    {<<>>} \cup {<<t>> : t \in ScoreTexts} \cup {<<"0.3", "1.5">>, <<"1.5", "8/10">>}

DefaultScore == Frac(8, 10)

\* _parse_ai_response, the score: each QUALITY SCORE line sets it, to the
\* default when float() raises.
RECURSIVE ParsedScore(_, _)
ParsedScore(lines, quality_score) ==
    IF lines = <<>>
    THEN quality_score
    ELSE ParsedScore(Tail(lines),
                     IF ParseFloat(Head(lines)) = None
                     THEN DefaultScore
                     ELSE ParseFloat(Head(lines))[1])

\* The constructor of the pydantic model WeatherAnalysis:
\* quality_score is Field(ge=0, le=1).
WeatherAnalysis(quality_score) ==
    IF AtLeast(quality_score, Frac(0, 1)) /\ AtLeast(Frac(1, 1), quality_score)
    THEN Return([quality_score |-> quality_score])
    ELSE Raise(<<"ValidationError">>)

\* process_weather_data after the answer has come.
process_weather_data(input, response) ==
    LET quality_score == ParsedScore(response, DefaultScore)
        validation_results == _validate_weather_data(input)
    IN  WeatherAnalysis(Max2(quality_score, validation_results.score))

qualityOthers ==
    <<workflowVars, stepVars, processor, risks, checklist, status, rag_service, contacts>>

QualityInit ==
    /\ call = NoCall
    /\ WorkflowNotStarted
    /\ StepsNotModelled
    /\ quality \in [pc : {"awaiting_llm"},
                    input : DataInputs(MaxRecords),
                    response : {<<>>},
                    parsed : {DefaultScore},
                    validation : {[score |-> Frac(1, 1), issues |-> 0,
                                   total_checks |-> 0]},
                    result : {Pending}]
    /\ processor = NotModelled
    /\ risks = NotModelled
    /\ checklist = NotModelled
    /\ status = NotModelled
    /\ rag_service = NotModelled
    /\ contacts = NotModelled

\* The backend answers and the answer is parsed.
ParseAiResponse ==
    /\ quality.pc = "awaiting_llm"
    /\ \E response \in AiResponses :
          quality' = [quality EXCEPT
              !.pc = "parsed",
              !.response = response,
              !.parsed = ParsedScore(response, DefaultScore)]
    /\ UNCHANGED qualityOthers

\* The records are validated and the analysis is built.
BuildWeatherAnalysis ==
    /\ quality.pc = "parsed"
    /\ quality' = [quality EXCEPT
           !.pc = "done",
           !.validation = _validate_weather_data(quality.input),
           !.result = process_weather_data(quality.input, quality.response)]
    /\ UNCHANGED qualityOthers

QualityNext ==
    \/ ParseAiResponse
    \/ BuildWeatherAnalysis

QualitySpec == QualityInit /\ [][QualityNext]_vars

\* ====================================================== the risk alerts
\* ForecastAgent._assess_risks (agents/forecast_agent.py) over the forecast
\* series of one analysis.  The columns of the DataFrame are the fields of
\* the forecasts.

\* The readings of a forecast: temperatures around 0 and 35, wind speeds
\* around 20, humidities around 50 and 85.
ForecastItems ==
    [temperature : {-1, 0, 35, 36},
     weather_condition : {"Clear", "Rain", "Drizzle", "Thunderstorm", "Squall"},
     wind_speed : {20, 21},
     humidity : {49, 50, 85, 86}]

\* Series of one and of two forecasts.
SeriesLengths == {1, 2}

ForecastSeries == UNION {[1..n -> ForecastItems] : n \in SeriesLengths}

\* df[field].max(), .min() and the sum behind .mean()
ColumnMax(forecasts, field) ==
    CHOOSE v \in {forecasts[i][field] : i \in 1..Len(forecasts)} :
        \A i \in 1..Len(forecasts) : forecasts[i][field] <= v

ColumnMin(forecasts, field) ==
    CHOOSE v \in {forecasts[i][field] : i \in 1..Len(forecasts)} :
        \A i \in 1..Len(forecasts) : forecasts[i][field] >= v

RECURSIVE ColumnSum(_, _)
ColumnSum(forecasts, field) ==
    IF forecasts = <<>>
    THEN 0
    ELSE Head(forecasts)[field] + ColumnSum(Tail(forecasts), field)

\* df[df['weather_condition'].isin(conditions)]
RowsWith(forecasts, conditions) ==
    SelectSeq(forecasts, LAMBDA f : f.weather_condition \in conditions)

\* A variant that warns of heat from 35 degrees on.
HeatRisk_from_35(forecasts) ==
    IF ColumnMax(forecasts, "temperature") >= 35 THEN <<"HEAT WARNING">> ELSE <<>>

HeatRisk(forecasts) ==
    IF ColumnMax(forecasts, "temperature") > 35 THEN <<"HEAT WARNING">> ELSE <<>>

ColdRisk(forecasts) ==
    IF ColumnMin(forecasts, "temperature") < 0 THEN <<"FROST WARNING">> ELSE <<>>

StormRisk(forecasts) ==
    IF RowsWith(forecasts, {"Thunderstorm", "Squall"}) # <<>>
    THEN <<"STORM ALERT">>
    ELSE <<>>

WindRisk(forecasts) ==
    IF ColumnMax(forecasts, "wind_speed") > 20 THEN <<"HIGH WIND WARNING">> ELSE <<>>

\* mean > 85, as sum > 85 * count
HumidityRisk(forecasts) ==
    IF ColumnSum(forecasts, "humidity") > 85 * Len(forecasts)
    THEN <<"HIGH HUMIDITY">>
    ELSE <<>>

DroughtRisk(forecasts) ==
    IF /\ RowsWith(forecasts, {"Rain", "Drizzle", "Thunderstorm"}) = <<>>
       /\ ColumnSum(forecasts, "humidity") < 50 * Len(forecasts)
    THEN <<"DRY CONDITIONS">>
    ELSE <<>>

_assess_risks(forecasts) ==
    HeatRisk(forecasts) \o ColdRisk(forecasts) \o StormRisk(forecasts)
    \o WindRisk(forecasts) \o HumidityRisk(forecasts) \o DroughtRisk(forecasts)

risksOthers ==
    <<workflowVars, stepVars, processor, quality, checklist, status, rag_service, contacts>>

RiskInit ==
    /\ call = NoCall
    /\ WorkflowNotStarted
    /\ StepsNotModelled
    /\ risks \in [pc : {"analysing"}, forecasts : ForecastSeries, alerts : {<<>>}]
    /\ processor = NotModelled
    /\ quality = NotModelled
    /\ checklist = NotModelled
    /\ status = NotModelled
    /\ rag_service = NotModelled
    /\ contacts = NotModelled

AssessRisks ==
    /\ risks.pc = "analysing"
    /\ risks' = [risks EXCEPT !.pc = "assessed",
                              !.alerts = _assess_risks(risks.forecasts)]
    /\ UNCHANGED risksOthers

RiskNext == AssessRisks

RiskSpec == RiskInit /\ [][RiskNext]_vars

\* ======================================================= the status probe
\* One call of get_workflow_status (workflows/weather_workflow.py): the
\* geocoding probe, then RAGService.get_collection_stats with its two calls
\* of the store, then the report.

\* The payload of a point: its category, or none.
PointCategories ==
    {Some("weather_advisory"), Some("best_practice"), Some("historical_pattern"),
     None}

PointLists == UNION {[1..n -> PointCategories] : n \in 0..MaxPoints}

\* category_counts[category] = category_counts.get(category, 0) + 1
CountCategory(category_counts, payload) ==
    LET category == IF payload = None THEN "unknown" ELSE payload[1]
    IN  IF category \in DOMAIN category_counts
        THEN [category_counts EXCEPT ![category] = @ + 1]
        ELSE (category :> 1) @@ category_counts

RECURSIVE CategoryDistribution(_, _)
CategoryDistribution(points, category_counts) ==
    IF points = <<>>
    THEN category_counts
    ELSE CategoryDistribution(Tail(points),
                              CountCategory(category_counts, Head(points)))

\* get_collection_stats: it catches every exception of the store and
\* returns a dict with the key "error"; it never raises.
get_collection_stats(store) ==
    IF store.get_collection = "error"
    THEN Return([error |-> "get_collection failed"])
    ELSE IF store.scroll = "error"
    THEN Return([error |-> "scroll failed"])
    ELSE Return([total_documents |-> Len(store.points),
                 category_distribution |->
                     CategoryDistribution(store.points, <<>>)])

\* The report of get_workflow_status after the two probes: an exception of
\* a probe lands in the bare except of its own try.
StatusReport(geocoding, stats) ==
    [workflow |-> "operational",
     weather_service |-> IF geocoding = "ok" THEN "operational" ELSE "error",
     rag_service |-> IF stats.kind = "raise" THEN "error" ELSE "operational",
     rag_knowledge_base |-> IF stats.kind = "raise" THEN <<>> ELSE stats.value[1]]

statusOthers ==
    <<workflowVars, stepVars, processor, quality, risks, checklist, rag_service, contacts>>

NoStore == [get_collection |-> "pending", scroll |-> "pending", points |-> <<>>]

StatusInit ==
    /\ call = NoCall
    /\ WorkflowNotStarted
    /\ StepsNotModelled
    /\ processor = NotModelled
    /\ quality = NotModelled
    /\ risks = NotModelled
    /\ checklist = NotModelled
    /\ status = [pc |-> "probing_weather", geocoding |-> "pending",
                 store |-> NoStore, report |-> None]
    /\ rag_service = NotModelled
    /\ contacts = NotModelled

\* await self.weather_service.get_coordinates("Manila") returns or raises.
WeatherProbeCompletes ==
    /\ status.pc = "probing_weather"
    /\ \E o \in FetchOutcomes("Manila") :
          status' = [status EXCEPT !.pc = "get_collection", !.geocoding = o.geo]
    /\ UNCHANGED statusOthers

\* self.client.get_collection answers or fails.
GetCollectionCompletes ==
    /\ status.pc = "get_collection"
    /\ \E o \in {"ok", "error"} :
          status' = [status EXCEPT
              !.store.get_collection = o,
              !.pc = IF o = "ok" THEN "scroll" ELSE "reporting"]
    /\ UNCHANGED statusOthers

\* self.client.scroll answers with the points of the collection or fails.
ScrollCompletes ==
    /\ status.pc = "scroll"
    /\ \/ \E points \in PointLists :
             status' = [status EXCEPT !.store.scroll = "ok",
                                      !.store.points = points,
                                      !.pc = "reporting"]
       \/ status' = [status EXCEPT !.store.scroll = "error", !.pc = "reporting"]
    /\ UNCHANGED statusOthers

\* get_collection_stats returns and get_workflow_status builds its report.
ReturnStatus ==
    /\ status.pc = "reporting"
    /\ status' = [status EXCEPT
           !.pc = "returned",
           !.report = Some(StatusReport(status.geocoding,
                                        get_collection_stats(status.store)))]
    /\ UNCHANGED statusOthers

StatusNext ==
    \/ WeatherProbeCompletes
    \/ GetCollectionCompletes
    \/ ScrollCompletes
    \/ ReturnStatus

StatusSpec == StatusInit /\ [][StatusNext]_vars

\* ==================================================== the action checklist
\* AdviceAgent._create_action_checklist (agents/advice_agent.py) over the
\* recommendations of one report.  A recommendation is its priority, its
\* timing and its title; the title is the position in the list.

Priorities == {"critical", "high", "medium", "low"}

Timings == {"now", "within_24h", "this_week", "next_week"}

\* Recommendation.priority and .timing are declared str: the structured
\* extraction can deliver values outside the two sets.
RecommendationKinds ==
    (Priorities \X Timings) \cup {<<"urgent", "now">>, <<"high", "soon">>}

ExtremeKinds == {<<"critical", "now">>, <<"low", "next_week">>}

Recommendation(kind, title) ==
    [priority |-> kind[1], timing |-> kind[2], title |-> title]

Titled(kinds) == [i \in 1..Len(kinds) |-> Recommendation(kinds[i], i)]

RecommendationLists(mixed, extreme) ==
    {Titled(kinds) :
        kinds \in UNION {[1..n -> RecommendationKinds] : n \in 0..mixed}}
    \cup {Titled(kinds) :
             kinds \in UNION {[1..n -> ExtremeKinds] : n \in 0..extreme}}

\* {'critical': 0, 'high': 1, 'medium': 2, 'low': 3}[priority]: None stands
\* for the KeyError.
PriorityRank(priority) ==
    CASE priority = "critical" -> Some(0)
      [] priority = "high" -> Some(1)
      [] priority = "medium" -> Some(2)
      [] priority = "low" -> Some(3)
      [] OTHER -> None

\* {'now': 0, 'within_24h': 1, 'this_week': 2, 'next_week': 3}[timing]
TimingRank(timing) ==
    CASE timing = "now" -> Some(0)
      [] timing = "within_24h" -> Some(1)
      [] timing = "this_week" -> Some(2)
      [] timing = "next_week" -> Some(3)
      [] OTHER -> None

\* The key of the sort; <<>> when a lookup raises.
SortKey(r) ==
    IF PriorityRank(r.priority) = None \/ TimingRank(r.timing) = None
    THEN <<>>
    ELSE <<PriorityRank(r.priority)[1], TimingRank(r.timing)[1]>>

\* Tuple comparison: k1 <= k2.
KeyAtMost(k1, k2) == k1[1] < k2[1] \/ (k1[1] = k2[1] /\ k1[2] <= k2[2])

\* One insertion of the stable ascending sort.
InsertByKey(sorted, r) ==
    LET n == Cardinality({j \in 1..Len(sorted) :
                             KeyAtMost(SortKey(sorted[j]), SortKey(r))})
    IN  SubSeq(sorted, 1, n) \o <<r>> \o SubSeq(sorted, n + 1, Len(sorted))

RECURSIVE SortedByKey(_, _)
SortedByKey(recommendations, sorted) ==
    IF recommendations = <<>>
    THEN sorted
    ELSE SortedByKey(Tail(recommendations),
                     InsertByKey(sorted, Head(recommendations)))

TimingLabel(timing) ==
    CASE timing = "now" -> "NOW"
      [] timing = "within_24h" -> "24H"
      [] timing = "this_week" -> "WEEK"
      [] timing = "next_week" -> "LATER"
      [] OTHER -> "PLAN"

ChecklistSize == 10

\* _create_action_checklist: the KeyError of the first recommendation
\* without a rank leaves it.
_create_action_checklist(recommendations) ==
    IF \E i \in 1..Len(recommendations) : SortKey(recommendations[i]) = <<>>
    THEN Raise(<<"KeyError">>)
    ELSE LET sorted_recs == Top(SortedByKey(recommendations, <<>>), ChecklistSize)
         IN  Return([i \in 1..Len(sorted_recs) |->
                        [label |-> TimingLabel(sorted_recs[i].timing),
                         title |-> sorted_recs[i].title]])

checklistOthers ==
    <<workflowVars, stepVars, processor, quality, risks, status, rag_service, contacts>>

ChecklistInit ==
    /\ call = NoCall
    /\ WorkflowNotStarted
    /\ StepsNotModelled
    /\ processor = NotModelled
    /\ quality = NotModelled
    /\ risks = NotModelled
    /\ status = NotModelled
    /\ rag_service = NotModelled
    /\ contacts = NotModelled
    /\ checklist \in [pc : {"extracted"},
                      recommendations :
                          RecommendationLists(MaxMixed, MaxRecommendations),
                      result : {Pending}]

CreateActionChecklist ==
    /\ checklist.pc = "extracted"
    /\ checklist' = [checklist EXCEPT
           !.pc = "done",
           !.result = _create_action_checklist(checklist.recommendations)]
    /\ UNCHANGED checklistOthers

ChecklistNext == CreateActionChecklist

ChecklistSpec == ChecklistInit /\ [][ChecklistNext]_vars

\* ============================================= the three processing stages
\* One run of a processing node of the workflow (workflows/weather_workflow.py)
\* with the agent behind it: DataAgent.process_weather_data,
\* ForecastAgent.analyze_forecast or AdviceAgent.generate_advice, from the
\* audience prompt to the state the node returns.

Processors == {"data", "forecast", "advice"}

\* A text is its lines.  A line holding a section header is Header; a line
\* starting with "- " is Bullet with the words after the dash; any other
\* line is Plain.
Header(section) == [kind |-> "header", section |-> section, words |-> {}]

Bullet(words) == [kind |-> "bullet", section |-> "", words |-> words]

Plain == [kind |-> "plain", section |-> "", words |-> {}]

\* The narratives the backend answers with.
ForecastNarratives ==
    {<<Plain>>,
     <<Bullet({"rain", "likely"}),
       Header("DISASTER RISKS:"), Bullet({"flood", "warning", "today"}),
       Header("AGRICULTURE INSIGHTS:"), Bullet({"consider", "irrigation", "may"}),
       Bullet({"avoid", "planting", "tomorrow", "will"})>>,
     <<Header("TIMING RECOMMENDATIONS:"), Plain, Bullet({"travel", "this week"})>>}

AdviceNarratives ==
    {<<Plain>>,
     <<Bullet({"stay", "safe"}),
       Header("FARMING RECOMMENDATIONS"), Bullet({"protect", "crops", "tomorrow"}),
       Header("IMMEDIATE ACTIONS"), Bullet({"evacuate"})>>,
     <<Header("PLANNING ADVICE"), Bullet({"rest"}), Bullet({"plan", "few days"}),
       Header("MONITORING ALERTS"), Bullet({"danger", "now"})>>}

\* any(word in text_lower for word in keywords)
AnyWord(words, keywords) == words \cap keywords # {}

\* ForecastAgent._determine_priority
ForecastAgent_determine_priority(text) ==
    IF AnyWord(text, {"critical", "urgent", "warning", "danger"}) THEN "critical"
    ELSE IF AnyWord(text, {"important", "risk", "alert", "avoid"}) THEN "high"
    ELSE IF AnyWord(text, {"consider", "monitor", "watch"}) THEN "medium"
    ELSE "low"

\* ForecastAgent._estimate_confidence
_estimate_confidence(text) ==
    IF AnyWord(text, {"likely", "expected", "will"}) THEN Frac(8, 10)
    ELSE IF AnyWord(text, {"possible", "may", "might"}) THEN Frac(6, 10)
    ELSE Frac(7, 10)

\* ForecastAgent._determine_time_horizon
_determine_time_horizon(text) ==
    IF AnyWord(text, {"today", "now", "immediate"}) THEN "immediate"
    ELSE IF AnyWord(text, {"tomorrow", "24 hour", "next day"}) THEN "24h"
    ELSE IF AnyWord(text, {"3 day", "this week"}) THEN "3-day"
    ELSE "weekly"

\* AdviceAgent._determine_priority
AdviceAgent_determine_priority(text, section) ==
    IF section = "immediate" THEN "critical"
    ELSE IF AnyWord(text, {"urgent", "critical", "danger", "warning"}) THEN "critical"
    ELSE IF AnyWord(text, {"important", "should", "risk", "protect"}) THEN "high"
    ELSE IF AnyWord(text, {"consider", "plan", "prepare"}) THEN "medium"
    ELSE "low"

\* AdviceAgent._determine_timing
_determine_timing(text, section) ==
    IF section = "immediate" THEN "now"
    ELSE IF AnyWord(text, {"immediately", "now", "today", "asap"}) THEN "now"
    ELSE IF AnyWord(text, {"tomorrow", "24 hour", "within day"}) THEN "within_24h"
    ELSE IF AnyWord(text, {"this week", "3 day", "few days"}) THEN "this_week"
    ELSE IF section = "planning" THEN "this_week"
    ELSE "within_24h"

\* The constructor of the pydantic model WeatherInsight: category,
\* priority and time_horizon are str (all_str says whether strings were
\* given), confidence is Field(ge=0, le=1).
WeatherInsight(category, priority, time_horizon, all_str, confidence) ==
    IF /\ all_str
       /\ AtLeast(confidence, Frac(0, 1))
       /\ AtLeast(Frac(1, 1), confidence)
    THEN Return([category |-> category, priority |-> priority,
                 time_horizon |-> time_horizon, confidence |-> confidence])
    ELSE Raise(<<"ValidationError">>)

ForecastSection(header) ==
    CASE header = "AGRICULTURE INSIGHTS:" -> "agriculture"
      [] header = "DISASTER RISKS:" -> "disaster"
      [] header = "TIMING RECOMMENDATIONS:" -> "timing"
      [] OTHER -> ""

\* The bullets of one section, in line order: the loop over the lines of
\* _extract_insights.
RECURSIVE SectionItems(_, _, _)
SectionItems(lines, current_section, section) ==
    IF lines = <<>>
    THEN <<>>
    ELSE LET line == Head(lines)
         IN  IF line.kind = "header"
             THEN SectionItems(Tail(lines), ForecastSection(line.section), section)
             ELSE IF line.kind = "bullet" /\ current_section = section
             THEN <<line.words>> \o SectionItems(Tail(lines), current_section, section)
             ELSE SectionItems(Tail(lines), current_section, section)

\* _extract_insights: the insights of the three sections, section by
\* section.
_extract_insights(ai_response) ==
    LET Insights(category) ==
            LET items == SectionItems(ai_response, "", category)
            IN  [i \in 1..Len(items) |->
                    WeatherInsight(category,
                                   ForecastAgent_determine_priority(items[i]),
                                   _determine_time_horizon(items[i]),
                                   TRUE,
                                   _estimate_confidence(items[i])).value[1]]
    IN  Insights("agriculture") \o Insights("disaster") \o Insights("timing")

AdviceSection(header) ==
    CASE header = "IMMEDIATE ACTIONS" -> "immediate"
      [] header = "FARMING RECOMMENDATIONS" -> "farming"
      [] header = "DISASTER PREPAREDNESS" -> "disaster"
      [] header = "PLANNING ADVICE" -> "planning"
      [] header = "MONITORING ALERTS" -> "monitoring"
      [] OTHER -> ""

\* current_audience of the section.
SectionAudience(section) ==
    CASE section = "farming" -> "farmers"
      [] section = "disaster" -> "officials"
      [] OTHER -> "general_public"

\* A Recommendation with the fields the checklist does not look at.
AddressedRecommendation(target_audience, action_type, kind, title) ==
    [target_audience |-> target_audience, action_type |-> action_type,
     priority |-> kind[1], timing |-> kind[2], title |-> title]

\* _extract_recommendations: one recommendation per bullet under a
\* section, in line order.
RECURSIVE _extract_recommendations(_, _, _)
_extract_recommendations(lines, current_section, recommendations) ==
    IF lines = <<>>
    THEN recommendations
    ELSE LET line == Head(lines)
         IN  IF line.kind = "header"
             THEN _extract_recommendations(Tail(lines), AdviceSection(line.section),
                                           recommendations)
             ELSE IF line.kind = "bullet" /\ current_section # ""
             THEN _extract_recommendations(
                      Tail(lines), current_section,
                      Append(recommendations,
                             AddressedRecommendation(
                                 SectionAudience(current_section),
                                 current_section,
                                 <<AdviceAgent_determine_priority(line.words,
                                                                  current_section),
                                   _determine_timing(line.words, current_section)>>,
                                 Len(recommendations) + 1)))
             ELSE _extract_recommendations(Tail(lines), current_section,
                                           recommendations)

\* JSON values as json.loads returns them.
NoFields == [k \in {} |-> ""]

JNull == [t |-> "null", s |-> "", n |-> Frac(0, 1), fields |-> NoFields,
          items |-> <<>>]

JNum(n) == [JNull EXCEPT !.t = "num", !.n = n]

JStr(s) == [JNull EXCEPT !.t = "str", !.s = s]

JObject(fields) == [JNull EXCEPT !.t = "object", !.fields = fields]

JArray(items) == [JNull EXCEPT !.t = "array", !.items = items]

\* The objects over the given keys with the given values.
Objects(values) ==
    UNION {{JObject(f) : f \in {g \in [keys -> UNION {values[k] : k \in keys}] :
                                    \A k \in keys : g[k] \in values[k]}} :
           keys \in SUBSET DOMAIN values}

InsightObjects ==
    Objects([category |-> {JStr("weather")},
             priority |-> {JStr("high"), JStr("urgent"), JNull},
             time_horizon |-> {JStr("weekly")},
             confidence |-> {JNum(Frac(8, 10)), JNum(Frac(15, 10)), JStr("high"),
                             JNull}])

RecommendationObjects ==
    Objects([target_audience |-> {JStr("farmers")},
             action_type |-> {JStr("evacuation")},
             priority |-> {JStr("critical"), JStr("urgent"), JNull},
             timing |-> {JStr("now"), JStr("soon")}])

ArrayLengths == 0..2

Arrays(elements) ==
    {JArray(items) : items \in UNION {[1..n -> elements] : n \in ArrayLengths}}

\* The answers that are no array.
OtherValues ==
    {JNull, JNum(Frac(1, 1)), JStr(""), JStr("abc"), JObject(NoFields),
     JObject([insights |-> JArray(<<>>)])}

\* An answer of the backend to the extraction call: the call raises, or
\* it returns a text that json.loads rejects (json is None) or parses.
CallRaised == [call |-> "error", json |-> None]

NotJson == [call |-> "ok", json |-> None]

Json(value) == [call |-> "ok", json |-> Some(value)]

ExtractionAnswers(agent) ==
    {CallRaised, NotJson}
    \cup {Json(v) : v \in OtherValues}
    \cup {Json(v) : v \in Arrays((IF agent = "forecast"
                                  THEN InsightObjects
                                  ELSE RecommendationObjects)
                                 \cup {JNum(Frac(1, 1))})}

\* `for item in data`: what the loop visits.  None and numbers are not
\* iterable; a string gives its characters and an object its keys, of
\* which the first is all the loop gets to see.
Iterate(data) ==
    CASE data.t \in {"null", "num"} -> Raise(<<"TypeError">>)
      [] data.t = "str" ->
             Return(IF data.s = "" THEN <<>> ELSE <<JStr("c")>>)
      [] data.t = "object" ->
             Return(IF DOMAIN data.fields = {} THEN <<>> ELSE <<JStr("k")>>)
      [] OTHER -> Return(data.items)

\* item.get(key, default)
Get(item, key, default) ==
    IF key \in DOMAIN item.fields THEN item.fields[key] ELSE default

\* float(x)
Float(x) ==
    CASE x.t = "num" -> Return(x.n)
      [] x.t = "str" -> Raise(<<"ValueError">>)
      [] OTHER -> Raise(<<"TypeError">>)

\* One round of the loop of _extract_insights_with_ai.
InsightOf(item) ==
    IF item.t # "object"
    THEN Raise(<<"AttributeError">>)
    ELSE LET category == Get(item, "category", JStr("general"))
             priority == Get(item, "priority", JStr("medium"))
             time_horizon == Get(item, "time_horizon", JStr("24h"))
             confidence == Float(Get(item, "confidence", JNum(Frac(7, 10))))
         IN  IF confidence.kind = "raise"
             THEN confidence
             ELSE WeatherInsight(category.s, priority.s, time_horizon.s,
                                 /\ category.t = "str"
                                 /\ priority.t = "str"
                                 /\ time_horizon.t = "str",
                                 confidence.value[1])

\* One round of the loop of _extract_recommendations_with_ai; the title
\* is the position in the list.
RecommendationOf(item, title) ==
    IF item.t # "object"
    THEN Raise(<<"AttributeError">>)
    ELSE LET target_audience == Get(item, "target_audience", JStr("general_public"))
             action_type == Get(item, "action_type", JStr("planning"))
             priority == Get(item, "priority", JStr("medium"))
             timing == Get(item, "timing", JStr("within_24h"))
         IN  IF /\ target_audience.t = "str"
                /\ action_type.t = "str"
                /\ priority.t = "str"
                /\ timing.t = "str"
             THEN Return(AddressedRecommendation(target_audience.s, action_type.s,
                                                 <<priority.s, timing.s>>, title))
             ELSE Raise(<<"ValidationError">>)

\* The loop over the items: the list of converted items, or the first
\* exception.
RECURSIVE Converted(_, _, _)
Converted(agent, items, done) ==
    IF items = <<>>
    THEN Return(done)
    ELSE LET one == IF agent = "forecast"
                    THEN InsightOf(Head(items))
                    ELSE RecommendationOf(Head(items), Len(done) + 1)
         IN  IF one.kind = "raise"
             THEN one
             ELSE Converted(agent, Tail(items), Append(done, one.value[1]))

\* The try block of _extract_insights_with_ai and of
\* _extract_recommendations_with_ai.
Structured(agent, answer) ==
    IF answer.call = "error" THEN Raise(<<"LLMError">>)
    ELSE IF answer.json = None THEN Raise(<<"JSONDecodeError">>)
    ELSE LET visited == Iterate(answer.json[1])
         IN  IF visited.kind = "raise"
             THEN visited
             ELSE Converted(agent, visited.value[1], <<>>)

Fallback(agent, ai_response) ==
    IF agent = "forecast"
    THEN _extract_insights(ai_response)
    ELSE _extract_recommendations(ai_response, "", <<>>)

\* _extract_insights_with_ai / _extract_recommendations_with_ai:
\* `except Exception` hands the narrative to the line parser.
Extracted(agent, ai_response, answer) ==
    LET structured == Structured(agent, answer)
    IN  IF structured.kind = "raise"
        THEN [path |-> "fallback", items |-> Fallback(agent, ai_response)]
        ELSE [path |-> "structured", items |-> structured.value[1]]

\* analyze_forecast and generate_advice after the extraction: the advice
\* report needs the action checklist.
AgentResult(agent, items) ==
    IF agent = "forecast"
    THEN Return([items |-> items, action_checklist |-> <<>>])
    ELSE LET action_checklist == _create_action_checklist(items)
         IN  IF action_checklist.kind = "raise"
             THEN action_checklist
             ELSE Return([items |-> items,
                          action_checklist |-> action_checklist.value[1]])

StageMessage(agent) ==
    CASE agent = "data" -> "Data analysis failed: "
      [] agent = "forecast" -> "Forecast analysis failed: "
      [] OTHER -> "Advice generation failed: "

\* A variant of the node without the except clause.
NodeReturn_no_except(agent, result) ==
    IF result.kind = "raise"
    THEN [output |-> None, error |-> None, node |-> "raised"]
    ELSE [output |-> result.value, error |-> None, node |-> "returned"]

\* The try/except of the node around the agent: what the node leaves in
\* its output field and in error, and how it ends.
NodeReturn(agent, result) ==
    IF result.kind = "raise"
    THEN [output |-> None,
          error |-> Some(<<StageMessage(agent)>> \o result.exc),
          node |-> "returned"]
    ELSE [output |-> result.value, error |-> None, node |-> "returned"]

\* The inputs of the data agent: the current weather of the state.
CurrentWeathers == {d \in DataInputs(0) : d.type = "WeatherData"}

processorOthers ==
    <<workflowVars, stepVars, quality, risks, checklist, status, rag_service, contacts>>

ProcessorInit ==
    /\ call = NoCall
    /\ WorkflowNotStarted
    /\ StepsNotModelled
    /\ quality = NotModelled
    /\ risks = NotModelled
    /\ checklist = NotModelled
    /\ status = NotModelled
    /\ rag_service = NotModelled
    /\ contacts = NotModelled
    /\ \E agent \in Processors :
          processor \in [pc : {IF agent = "data" THEN "prompt" ELSE "start"},
                         agent : {agent},
                         cached : IF agent = "data" THEN {FALSE} ELSE BOOLEAN,
                         failed : {"none"},
                         narrative : {None},
                         answer : {NotJson},
                         path : {"none"},
                         items : {<<>>},
                         result : {Pending},
                         output : {None},
                         error : {None},
                         node : {"running"}]

\* _create_audience_prompt finds the audience in the cache.
UseCachedPrompt ==
    /\ processor.pc = "start"
    /\ processor.cached
    /\ processor' = [processor EXCEPT !.pc = "prompt"]
    /\ UNCHANGED processorOthers

\* _create_audience_prompt issues the meta-generation call, which returns
\* or raises.
GeneratePrompt ==
    /\ processor.pc = "start"
    /\ ~processor.cached
    /\ \E o \in LlmOutcomes :
          processor' =
              IF o = "ok"
              THEN [processor EXCEPT !.pc = "prompt", !.cached = TRUE]
              ELSE [processor EXCEPT !.pc = "agent_done", !.failed = "meta",
                                     !.result = Raise(<<"LLMError">>)]
    /\ UNCHANGED processorOthers

\* The narrative call of the forecast or the advice agent returns a text
\* or raises.
NarrativeCall ==
    /\ processor.pc = "prompt"
    /\ processor.agent # "data"
    /\ \/ \E text \in (IF processor.agent = "forecast"
                       THEN ForecastNarratives ELSE AdviceNarratives) :
             processor' = [processor EXCEPT !.pc = "narrated",
                                            !.narrative = Some(text)]
       \/ processor' = [processor EXCEPT !.pc = "agent_done",
                                         !.failed = "narrative",
                                         !.result = Raise(<<"LLMError">>)]
    /\ UNCHANGED processorOthers

\* process_weather_data: the assessment call returns and the analysis is
\* built, or the call raises.
ProcessWeatherData ==
    /\ processor.pc = "prompt"
    /\ processor.agent = "data"
    /\ \/ \E input \in CurrentWeathers, response \in AiResponses :
             processor' = [processor EXCEPT
                 !.pc = "agent_done",
                 !.narrative = Some(response),
                 !.result = process_weather_data(input, response)]
       \/ processor' = [processor EXCEPT !.pc = "agent_done",
                                         !.failed = "narrative",
                                         !.result = Raise(<<"LLMError">>)]
    /\ UNCHANGED processorOthers

\* The extraction call is answered; the items are extracted and the agent
\* builds its result.
ExtractionCall ==
    /\ processor.pc = "narrated"
    /\ \E answer \in ExtractionAnswers(processor.agent) :
          LET extracted == Extracted(processor.agent, processor.narrative[1], answer)
          IN  processor' = [processor EXCEPT
                  !.pc = "agent_done",
                  !.answer = answer,
                  !.path = extracted.path,
                  !.items = extracted.items,
                  !.result = AgentResult(processor.agent, extracted.items)]
    /\ UNCHANGED processorOthers

\* The node stores the result of the agent or the error and ends.
NodeReturns ==
    /\ processor.pc = "agent_done"
    /\ LET r == NodeReturn(processor.agent, processor.result)
       IN  processor' = [processor EXCEPT !.pc = "done",
                                          !.output = r.output,
                                          !.error = r.error,
                                          !.node = r.node]
    /\ UNCHANGED processorOthers

ProcessorNext ==
    \/ UseCachedPrompt
    \/ GeneratePrompt
    \/ NarrativeCall
    \/ ProcessWeatherData
    \/ ExtractionCall
    \/ NodeReturns

ProcessorSpec == ProcessorInit /\ [][ProcessorNext]_vars

\* ================================== the knowledge store and its initialization
\* RAGService.__init__ schedules _initialize_collection as a task of the
\* event loop (services/rag_service.py); the pipeline runs of the workflow
\* search the store in their fourth stage.  The event loop runs one task at
\* a time, from its resumption to its next suspension at an I/O call.

CorpusSize == 6

\* The reference documents of _populate_default_knowledge.
Corpus == 1..CorpusSize

\* The backing index: whether the collection exists, how many copies of
\* each reference document it holds, and how many other documents.
Backend(exists, copies, others) ==
    [exists |-> exists, copies |-> copies, others |-> others]

NoCopies == [d \in Corpus |-> 0]

\* What the index holds when the service is constructed for the first
\* time: no collection, an empty collection, or a collection with a
\* document of its own.
Backends ==
    {Backend(FALSE, NoCopies, 0), Backend(TRUE, NoCopies, 0),
     Backend(TRUE, NoCopies, 1)}

StoreRuns == {"first", "second"}

IdleRun == [at |-> "idle", ready |-> FALSE, ok |-> FALSE,
            weather |-> FALSE, analysis |-> FALSE]

\* A variant that forgets to schedule the task.
Scheduled_never(ready) == ready

\* asyncio.create_task(self._initialize_collection()): the task joins the
\* ready queue of the loop.
Scheduled(ready) == Append(ready, "init")

\* add_knowledge for every reference document in turn; a failing upsert
\* is caught and the loop goes on.  No await of the loop suspends.
_populate_default_knowledge(backend, failed) ==
    [backend EXCEPT !.copies =
        [d \in Corpus |-> IF d \in failed THEN @[d] ELSE @[d] + 1]]

\* _initialize_collection with the outcomes of get_collections and
\* create_collection and the set of reference documents whose upsert
\* fails: the index afterwards.
_initialize_collection(backend, listed, created, failed) ==
    IF listed # "ok"
    THEN backend
    ELSE IF backend.exists
    THEN backend
    ELSE IF created # "ok"
    THEN backend
    ELSE _populate_default_knowledge([backend EXCEPT !.exists = TRUE], failed)

StoreOutcomes == {"ok", "error"}

storeOthers ==
    <<workflowVars, stepVars, processor, quality, risks, checklist, status, contacts>>

StoreInit ==
    /\ call = NoCall
    /\ WorkflowNotStarted
    /\ StepsNotModelled
    /\ processor = NotModelled
    /\ quality = NotModelled
    /\ risks = NotModelled
    /\ checklist = NotModelled
    /\ status = NotModelled
    /\ rag_service \in [pc : {"down"},
                  backend : Backends,
                  before : {Backend(FALSE, NoCopies, 0)},
                  init : {"unscheduled"},
                  init_failed : {FALSE},
                  ready : {<<>>},
                  runs : {[r \in StoreRuns |-> IdleRun]},
                  searches : {{}},
                  restarted : {FALSE}]
    /\ contacts = NotModelled

\* WeatherInsightsWorkflow.__init__ constructs the RAGService.
ConstructWorkflow ==
    /\ rag_service.pc = "down"
    /\ rag_service' = [rag_service EXCEPT !.pc = "up",
                              !.init = "scheduled",
                              !.ready = Scheduled(@)]
    /\ UNCHANGED storeOthers

\* The service is constructed once more over the same index, with no run
\* under way.
ConstructAgain ==
    /\ rag_service.pc = "up"
    /\ rag_service.init = "done"
    /\ ~rag_service.restarted
    /\ \A r \in StoreRuns : rag_service.runs[r].at \in {"idle", "done"}
    /\ rag_service' = [rag_service EXCEPT !.init = "scheduled",
                              !.init_failed = FALSE,
                              !.ready = Scheduled(@),
                              !.restarted = TRUE,
                              !.runs = [r \in StoreRuns |-> IdleRun],
                              !.searches = {}]
    /\ UNCHANGED storeOthers

\* run_analysis begins and runs up to the first I/O of the Fetch stage.
StartRun(r) ==
    /\ rag_service.pc = "up"
    /\ rag_service.runs[r].at = "idle"
    /\ rag_service' = [rag_service EXCEPT !.runs[r].at = "fetch"]
    /\ UNCHANGED storeOthers

\* The I/O call run r is suspended at returns or fails: the run is ready.
IoCompletes(r) ==
    /\ rag_service.runs[r].at \in {"fetch", "data", "forecast", "advice"}
    /\ ~rag_service.runs[r].ready
    /\ \E o \in StoreOutcomes :
          rag_service' = [rag_service EXCEPT !.runs[r].ready = TRUE,
                                 !.runs[r].ok = (o = "ok"),
                                 !.ready = Append(@, r)]
    /\ UNCHANGED storeOthers

\* The loop runs the initialization task, which never suspends.
LoopRunsInitialization ==
    /\ rag_service.ready # <<>>
    /\ Head(rag_service.ready) = "init"
    /\ \E listed \in StoreOutcomes, created \in StoreOutcomes,
          failed \in SUBSET Corpus :
          /\ (listed # "ok" \/ rag_service.backend.exists) =>
                 (created = "ok" /\ failed = {})
          /\ created # "ok" => failed = {}
          /\ rag_service' = [rag_service EXCEPT
                 !.ready = Tail(@),
                 !.init = "done",
                 !.before = rag_service.backend,
                 !.init_failed = (listed # "ok" \/ created # "ok" \/ failed # {}),
                 !.backend = _initialize_collection(@, listed, created, failed)]
    /\ UNCHANGED storeOthers

\* Where run r suspends next, or "done", once the call it waited for has
\* come back: the stages without their input issue no call, and the
\* searches of the fourth stage suspend nowhere.
ResumedAt(run) ==
    CASE run.at = "fetch" -> IF run.ok THEN "data" ELSE "done"
      [] run.at = "data" -> "forecast"
      [] run.at = "forecast" -> IF run.analysis /\ run.ok THEN "advice" ELSE "done"
      [] OTHER -> "done"

\* The loop resumes run r, which runs to its next I/O call; on the way
\* from the Forecast stage it searches the store when it has the weather
\* and the forecast analysis.
LoopResumesRun(r) ==
    /\ rag_service.ready # <<>>
    /\ Head(rag_service.ready) = r
    /\ LET run == rag_service.runs[r]
           searching == run.at = "forecast" /\ run.weather /\ run.ok
       IN  rag_service' = [rag_service EXCEPT
               !.ready = Tail(@),
               !.runs[r] = [run EXCEPT
                   !.at = ResumedAt(run),
                   !.ready = FALSE,
                   !.weather = IF run.at = "fetch" THEN run.ok ELSE @,
                   !.analysis = IF run.at = "data" THEN run.ok ELSE @],
               !.searches = IF searching
                            THEN @ \cup {[run |-> r, init |-> rag_service.init,
                                          backend |-> rag_service.backend]}
                            ELSE @]
    /\ UNCHANGED storeOthers

StoreNext ==
    \/ ConstructWorkflow
    \/ ConstructAgain
    \/ \E r \in StoreRuns : StartRun(r)
    \/ \E r \in StoreRuns : IoCompletes(r)
    \/ LoopRunsInitialization
    \/ \E r \in StoreRuns : LoopResumesRun(r)

StoreSpec == StoreInit /\ [][StoreNext]_vars

\* ================================================= the contact suggestions
\* AdviceAgent._generate_contact_suggestions (agents/advice_agent.py) over
\* the risk alerts of the forecast analysis.

\* The text of an alert of _assess_risks, word by word.
AlertWords(alert) ==
    CASE alert = "HEAT WARNING" ->
             <<"HEAT", "WARNING:", "Extreme", "temperatures", "expected", "-",
               "risk", "of", "heat", "stress">>
      [] alert = "FROST WARNING" ->
             <<"FROST", "WARNING:", "Freezing", "temperatures", "expected", "-",
               "protect", "crops", "and", "livestock">>
      [] alert = "STORM ALERT" ->
             <<"STORM", "ALERT:", "Thunderstorms", "predicted", "-", "secure",
               "outdoor", "equipment">>
      [] alert = "HIGH WIND WARNING" ->
             <<"HIGH", "WIND", "WARNING:", "Strong", "winds", "expected", "-",
               "avoid", "tall", "structures">>
      [] alert = "HIGH HUMIDITY" ->
             <<"HIGH", "HUMIDITY:", "Increased", "risk", "of", "plant",
               "diseases", "and", "heat", "stress">>
      [] OTHER ->
             <<"DRY", "CONDITIONS:", "No", "rain", "expected", "-", "monitor",
               "irrigation", "needs">>

\* A variant that leaves the case as it is.
Lower_unchanged(word) == word

\* str.lower(), on the words of the alerts.
Lower(word) ==
    CASE word = "HEAT" -> "heat"
      [] word = "FROST" -> "frost"
      [] word = "STORM" -> "storm"
      [] word = "WIND" -> "wind"
      [] word = "HIGH" -> "high"
      [] word = "DRY" -> "dry"
      [] word = "WARNING:" -> "warning:"
      [] word = "ALERT:" -> "alert:"
      [] word = "HUMIDITY:" -> "humidity:"
      [] word = "CONDITIONS:" -> "conditions:"
      [] word = "Extreme" -> "extreme"
      [] word = "Freezing" -> "freezing"
      [] word = "Thunderstorms" -> "thunderstorms"
      [] word = "Strong" -> "strong"
      [] word = "Increased" -> "increased"
      [] word = "No" -> "no"
      [] OTHER -> word

\* `keyword in word` for the keywords of the four families and the words
\* of the alerts.
Within(keyword, word) ==
    \/ keyword = word
    \/ <<keyword, word>> \in {<<"storm", "thunderstorms">>, <<"wind", "winds">>}

\* keyword in alert.lower()
InAlert(keyword, alert) ==
    \E i \in 1..Len(AlertWords(alert)) : Within(keyword, Lower(AlertWords(alert)[i]))

\* any(k1 in alert.lower() or k2 in alert.lower() for alert in risk_alerts)
AnyAlert(risk_alerts, k1, k2) ==
    \E i \in 1..Len(risk_alerts) :
        InAlert(k1, risk_alerts[i]) \/ InAlert(k2, risk_alerts[i])

GeneralContacts ==
    <<"Local weather service for updated forecasts",
      "Agricultural extension office for farming guidance",
      "Community emergency coordinator for disaster preparation">>

\* The list before the duplicates are removed.
ContactList(risk_alerts) ==
    (IF AnyAlert(risk_alerts, "storm", "wind")
     THEN <<"Local emergency management office for storm preparations">>
     ELSE <<>>)
    \o (IF AnyAlert(risk_alerts, "flood", "rain")
        THEN <<"Agricultural extension office for flood mitigation advice">>
        ELSE <<>>)
    \o (IF AnyAlert(risk_alerts, "heat", "drought")
        THEN <<"Local health department for heat safety information">>
        ELSE <<>>)
    \o (IF AnyAlert(risk_alerts, "frost", "cold")
        THEN <<"Agricultural extension for crop protection guidance">>
        ELSE <<>>)
    \o GeneralContacts

Elements(list) == {list[i] : i \in 1..Len(list)}

\* The elements of list, each once, in the order of their first
\* occurrence.
RECURSIVE FirstOccurrences(_)
FirstOccurrences(list) ==
    IF list = <<>>
    THEN <<>>
    ELSE LET before == FirstOccurrences(SubSeq(list, 1, Len(list) - 1))
         IN  IF list[Len(list)] \in Elements(before)
             THEN before
             ELSE Append(before, list[Len(list)])

\* list(set(contacts)): the elements once each, in an order the program
\* does not fix.
ListOfSet(list) ==
    LET once == FirstOccurrences(list)
    IN  {[i \in 1..Len(once) |-> p[once[i]]] : p \in Permutations(Elements(list))}

\* _generate_contact_suggestions: the lists it may return.
_generate_contact_suggestions(risk_alerts) == ListOfSet(ContactList(risk_alerts))

contactsOthers ==
    <<workflowVars, stepVars, processor, quality, risks, checklist, status, rag_service>>

ContactInit ==
    /\ call = NoCall
    /\ WorkflowNotStarted
    /\ StepsNotModelled
    /\ processor = NotModelled
    /\ quality = NotModelled
    /\ risks = NotModelled
    /\ checklist = NotModelled
    /\ status = NotModelled
    /\ rag_service = NotModelled
    /\ contacts \in [pc : {"reporting"},
                     risk_alerts : {_assess_risks(f) : f \in ForecastSeries},
                     suggestions : {<<>>}]

GenerateContactSuggestions ==
    /\ contacts.pc = "reporting"
    /\ \E suggestions \in _generate_contact_suggestions(contacts.risk_alerts) :
          contacts' = [contacts EXCEPT !.pc = "done", !.suggestions = suggestions]
    /\ UNCHANGED contactsOthers

ContactNext == GenerateContactSuggestions

ContactSpec == ContactInit /\ [][ContactNext]_vars

\* ================================================================== claims

\* The five stages in the order the specification gives them.
StageOrder ==
    <<"fetch_weather", "analyze_data", "forecast_analysis",
      "retrieve_knowledge", "generate_advice">>

\* The workflow of run r has ended.
Ended(r) == pc[r] \in {END, "done"}

\* run_batch_analysis has finished.
BatchFinished == batch.kind # "pending"

\* C1: every finished run_analysis call has returned a result value and every
\* finished run_batch_analysis call has returned a list: no exception leaves
\* either of them, whatever the stages did and whether or not the final
\* state's error is set.
C1_NoExceptionEscapes ==
    /\ \A r \in Runs : pc[r] = "done" => outcome[r].kind # "raise"
    /\ batch.kind # "raise"

\* C2: in every run the completed stages are, in order, the first stages of
\* Fetch, DataQuality, ForecastInterpretation, KnowledgeRetrieval,
\* AdviceGeneration, each once; the stage a run is at is the one right after
\* the completed ones, and a run whose workflow has ended has run all five.
C2_StagesInFixedOrder ==
    \A r \in Runs :
        LET n == Len(log[r])
        IN  /\ n <= Len(StageOrder)
            /\ \A i \in 1..n : log[r][i].node = StageOrder[i]
            /\ pc[r] = "idle" => n = 0
            /\ pc[r] \in Nodes => n < Len(StageOrder) /\ pc[r] = StageOrder[n + 1]
            /\ Ended(r) => n = Len(StageOrder)

\* A run has gone through its whole workflow.
C2_Witness ==
    \E r \in Runs : pc[r] = "done" /\ Len(log[r]) = Len(StageOrder)

\* C3: once a stage of a run has set error, no later stage of that run
\* changes error, writes an output field, or issues a text-generation call
\* or a knowledge search.
C3_ErrorIsHardStop ==
    \A r \in Runs :
        \A i, j \in 1..Len(log[r]) :
            (i < j /\ log[r][i].set_error)
                => /\ ~log[r][j].set_error
                   /\ ~log[r][j].wrote_output
                   /\ log[r][j].calls = {}

Requires(later, earlier) ==
    \/ earlier = "fetch_weather" /\ later # "fetch_weather"
    \/ earlier = "analyze_data" /\ later = "generate_advice"
    \/ earlier = "forecast_analysis"
       /\ later \in {"retrieve_knowledge", "generate_advice"}

C5_LastMessageSurfaces ==
    \A r \in Runs :
        (Ended(r) /\ log[r][1].set_error)
            => state[r].error =
                   Some(<<"Missing analysis data for advice generation">>)

\* A workflow has ended whose Fetch stage failed.
C5_Witness ==
    \E r \in Runs :
        /\ pc[r] = END
        /\ log[r][1].set_error
        /\ log[r][1].node = "fetch_weather"

\* C6: a run whose final state has a non-empty error returns a result with
\* success false, the state's error as its message, the requested location,
\* and no data-quality, forecast-insight or recommendation field.
C6_FailureResultReturned ==
    \A r \in Runs :
        (pc[r] = "done" /\ TruthyStr(state[r].error))
            => /\ outcome[r].kind = "return"
               /\ outcome[r].value[1].success = FALSE
               /\ outcome[r].value[1].error_message = state[r].error
               /\ outcome[r].value[1].location = call.locations[r]
               /\ outcome[r].value[1].data_quality = None
               /\ outcome[r].value[1].forecast_insights = None
               /\ outcome[r].value[1].recommendations = None

\* C7: a finished run_batch_analysis call has returned a list as long as
\* its input whose i-th result carries the i-th location.
C7_BatchKeepsInputOrder ==
    BatchFinished
        => /\ batch.kind = "return"
           /\ Len(batch.value[1]) = Len(call.locations)
           /\ \A i \in 1..Len(call.locations) :
                  batch.value[1][i].location = call.locations[i]

\* C8: a finished run_batch_analysis call in which the pipeline of one
\* location failed and that of another succeeded has returned all results,
\* and the result at index i is a failure result exactly when the pipeline
\* of location i failed: the other locations' results are success results.
C8_BatchIsolatesFailures ==
    (/\ BatchFinished
     /\ \E i \in Active : TruthyStr(state[i].error)
     /\ \E i \in Active : ~TruthyStr(state[i].error))
        => /\ batch.kind = "return"
           /\ DOMAIN batch.value[1] = Active
           /\ \A i \in Active :
                  batch.value[1][i].success = ~TruthyStr(state[i].error)

C10_FinalStageDecides ==
    \A r \in Runs :
        pc[r] = "done"
            => /\ outcome[r].kind = "return"
               /\ outcome[r].value[1].success = log[r][5].wrote_output


\* C11: after the Fetch stage the current-weather snapshot and the forecast
\* series are both present and no error is set, or both are absent and the
\* error is set; a request that succeeded leaves nothing behind when the
\* other one failed.
C11_BothOrNeither ==
    fetch.pc = "returned" =>
        \/ /\ fetch.state.current_weather # None
           /\ fetch.state.forecast_data # None
           /\ fetch.state.error = None
        \/ /\ fetch.state.current_weather = None
           /\ fetch.state.forecast_data = None
           /\ fetch.state.error # None

\* The forecast request failed after the current-conditions request had
\* succeeded, and the stage has returned.
C11_Witness ==
    /\ fetch.pc = "returned"
    /\ fetch.requests["weather"] = "ok"
    /\ fetch.raised = Some("forecast")
    /\ fetch.state.current_weather = None
    /\ fetch.state.error # None

\* The caller supplied both a latitude and a longitude.
PairSupplied == call.latitude # None /\ call.longitude # None

\* C12: the Fetch stage calls geocoding exactly when the caller supplied no
\* coordinate pair; a supplied pair, a zero latitude or longitude included,
\* is used unchanged and without a geocoding call, and without a pair
\* geocoding is called once, before the two requests are started.
C12_GeocodingIffNoPair ==
    fetch.pc \notin {"idle", "entry"} =>
        /\ PairSupplied =>
              /\ fetch.geocodes = 0
              /\ fetch.state.latitude = call.latitude
              /\ fetch.state.longitude = call.longitude
              /\ fetch.coords = Some(<<call.latitude[1], call.longitude[1]>>)
        /\ ~PairSupplied =>
              /\ fetch.geocodes = 1
              /\ fetch.pc = "geocoding" => fetch.requests = NoRequests

\* C13: the current-conditions request and the forecast request are both
\* started before the result of either is awaited, so whenever one of them
\* has completed the other has been started; and the stage returns from the
\* two requests only when both have completed or one has failed.
C13_RequestsRunConcurrently ==
    /\ \A q \in Requests :
          fetch.pc # "idle" /\ fetch.requests[q] \in {"ok", "error"} =>
              \A p \in Requests : fetch.requests[p] # "unstarted"
    /\ fetch.pc = "returned" /\ fetch.coords # None =>
          \/ \A q \in Requests : fetch.requests[q] = "ok"
          \/ \E q \in Requests : fetch.requests[q] = "error"

\* The stage has returned on the failure of the current-conditions request
\* while the forecast request, started with it, is still in flight.
C13_Witness ==
    /\ fetch.pc = "returned"
    /\ fetch.raised = Some("weather")
    /\ fetch.requests["forecast"] = "pending"

\* C14: when the Fetch stage fails, each of the four later stages is still
\* invoked once, in order, and each returns on its missing-input check:
\* it sets the error and issues no text-generation call and no
\* knowledge-store search.
C14_LaterStagesFailFast ==
    \A r \in Runs :
        Len(log[r]) >= 1 /\ log[r][1].set_error =>
            /\ \A i \in 2..Len(log[r]) :
                  /\ log[r][i].node = StageOrder[i]
                  /\ log[r][i].calls = {}
                  /\ log[r][i].set_error
            /\ Ended(r) => Len(log[r]) = 5

\* A run whose Fetch stage failed has gone through all five stages and
\* run_analysis is over.
C14_Witness ==
    \E r \in Runs :
        /\ pc[r] = "done"
        /\ Len(log[r]) = 5
        /\ log[r][1].set_error
        /\ log[r][5].calls = {}

\* The calls on agent ag for audience that issued a meta-generation call.
IssuedCalls(ag, audience) ==
    {c \in Calls : /\ prompts.calls[c].pc # "idle"
                   /\ prompts.calls[c].agent = ag
                   /\ prompts.calls[c].audience = audience
                   /\ prompts.calls[c].issued}

\* C15 as stated: for each agent and each audience the meta-generation call
\* is issued at most once, under every interleaving of concurrent calls.
C15_AtMostOneMetaGeneration ==
    \A ag \in Agents, audience \in Audiences :
        Cardinality(IssuedCalls(ag, audience)) <= 1

\* C15 amended: a meta-generation call is issued only by a call that began
\* while the agent's cache held no entry for its audience; a call that
\* begins once an entry is stored issues none.  (Calls that begin before
\* the first entry is stored each issue one.)
C15_MetaGenerationOnlyBeforeFirstEntry ==
    \A c \in Calls :
        prompts.calls[c].pc # "idle" =>
            (prompts.calls[c].issued <=> prompts.calls[c].entry_at_start = None)

\* Two concurrent first requests for one audience have both issued the
\* meta-generation call and both have returned.
C15_Witness ==
    /\ \E ag \in Agents, audience \in Audiences :
          /\ Cardinality(IssuedCalls(ag, audience)) = 2
          /\ \A c \in IssuedCalls(ag, audience) : prompts.calls[c].pc = "returned"

\* Call c is the second of two calls in sequence for one previously unseen
\* audience: d found no entry, issued the meta-generation call and returned
\* before c began, and no third call generated a prompt for that audience.
InSequence(d, c) ==
    /\ prompts.calls[c].pc # "idle"
    /\ d \in prompts.calls[c].after
    /\ prompts.calls[d].agent = prompts.calls[c].agent
    /\ prompts.calls[d].audience = prompts.calls[c].audience
    /\ prompts.calls[d].entry_at_start = None
    /\ IssuedCalls(prompts.calls[c].agent, prompts.calls[c].audience) \ {c} = {d}

\* C16: the second of two calls in sequence with the same previously unseen
\* audience issues no text-generation call and returns the prompt template
\* the first call stored.
C16_SecondCallHitsCache ==
    \A c, d \in Calls :
        InSequence(d, c) =>
            /\ ~prompts.calls[c].issued
            /\ prompts.calls[c].pc = "returned"
            /\ prompts.calls[c].result = prompts.calls[d].result
            /\ prompts.calls[c].result # None

\* A second call in sequence has returned.
C16_Witness ==
    /\ \E c, d \in Calls : InSequence(d, c) /\ prompts.calls[c].pc = "returned"

\* C17 as stated: once an entry for an audience is present it is never
\* removed and never replaced by a different value: the cache holds the
\* first prompt stored for the audience.
C17_CacheAppendOnly ==
    \A ag \in Agents, audience \in Audiences :
        prompts.cache[ag][audience] = prompts.first[ag][audience]

\* C17 amended: an entry is never removed, and it is replaced only by the
\* prompt of a call that began before the first entry for the audience was
\* stored.
C17_EntryKeptOrReplacedByEarlyCall ==
    \A ag \in Agents, audience \in Audiences :
        /\ prompts.first[ag][audience] # None =>
              prompts.cache[ag][audience] # None
        /\ prompts.cache[ag][audience] # prompts.first[ag][audience] =>
              \E c \in IssuedCalls(ag, audience) :
                  /\ prompts.calls[c].pc = "returned"
                  /\ prompts.calls[c].entry_at_start = None
                  /\ prompts.calls[c].result = prompts.cache[ag][audience]

\* An entry has been replaced by a different prompt.
C17_Witness ==
    /\ \E ag \in Agents, audience \in Audiences :
          /\ prompts.first[ag][audience] # None
          /\ prompts.cache[ag][audience] # prompts.first[ag][audience]

\* The scores with which the searches returned content.
ScoresOf(content) ==
    {retrieval.results[i].score :
        i \in {j \in 1..Len(retrieval.results) :
                  retrieval.results[j].content = content}}

\* The content texts the searches returned.
Candidates ==
    {retrieval.results[i].content : i \in 1..Len(retrieval.results)}

\* The highest score with which the searches returned content.
BestScore(content) ==
    CHOOSE sc \in ScoresOf(content) : \A other \in ScoresOf(content) : other <= sc

\* C18: the list get_contextual_knowledge returns has no two entries with
\* the same content text, every entry is a content some search returned,
\* and its score is the highest among the occurrences of that content.
C18_DeduplicatedWithHighestScore ==
    retrieval.pc = "returned" =>
        /\ \A i, j \in 1..Len(retrieval.returned) :
              retrieval.returned[i].content = retrieval.returned[j].content => i = j
        /\ \A i \in 1..Len(retrieval.returned) :
              /\ retrieval.returned[i].content \in Candidates
              /\ retrieval.returned[i].score = BestScore(retrieval.returned[i].content)

\* A content text was returned first with score 0.6 and by a later search
\* with 0.9, and the returned list holds it.
C18_Witness ==
    /\ retrieval.pc = "returned"
    /\ \E i, j \in 1..Len(retrieval.results) :
          /\ i < j
          /\ retrieval.results[i].content = retrieval.results[j].content
          /\ retrieval.results[i].score = 6
          /\ retrieval.results[j].score = 9
          /\ \E k \in 1..Len(retrieval.returned) :
                retrieval.returned[k] = retrieval.results[j]

\* C19: the returned list is ordered by non-increasing score, has at most
\* 5 entries (all distinct contents when there are at most 5), and no
\* content left out has a best score strictly higher than that of a
\* returned entry.
C19_TopFiveByScore ==
    retrieval.pc = "returned" =>
        LET returned == retrieval.returned
            contents == {returned[i].content : i \in 1..Len(returned)}
        IN  /\ \A i \in 1..(Len(returned) - 1) :
                  returned[i].score >= returned[i + 1].score
            /\ Len(returned) <= 5
            /\ Len(returned) = IF Cardinality(Candidates) < 5
                               THEN Cardinality(Candidates)
                               ELSE 5
            /\ \A c \in Candidates \ contents :
                  \A i \in 1..Len(returned) : BestScore(c) <= returned[i].score

\* More than five distinct contents were found, the first of them with the
\* lower score only; the five returned all have the higher score and a
\* content with the lower one is left out.
C19_Witness ==
    /\ retrieval.pc = "returned"
    /\ Cardinality(Candidates) > 5
    /\ Len(retrieval.returned) = 5
    /\ retrieval.returned[5].score = 9
    /\ BestScore(retrieval.results[1].content) = 6
    /\ \A i \in 1..5 : retrieval.returned[i].content # retrieval.results[1].content

\* C20: the category="best_practice" search (limit 2) is issued if and only
\* if the audience is "farmers"; for every audience the unfiltered search
\* (limit 3) is issued first and the category="weather_advisory" search
\* (limit 2) last: three searches for a farmer, two for any other audience.
C20_BestPracticeSearchOnlyForFarmers ==
    retrieval.pc = "returned" =>
        LET searches == retrieval.searches
            n == Len(searches)
        IN  /\ n = IF retrieval.audience = "farmers" THEN 3 ELSE 2
            /\ searches[1].category_filter = None /\ searches[1].limit = 3
            /\ searches[n].category_filter = Some("weather_advisory")
            /\ searches[n].limit = 2
            /\ (\E i \in 1..n : searches[i].category_filter = Some("best_practice"))
                   <=> retrieval.audience = "farmers"
            /\ \A i \in 1..n :
                  searches[i].category_filter = Some("best_practice") =>
                      i = 2 /\ searches[i].limit = 2

\* A retrieval for farmers has returned after three searches.
C20_Witness ==
    /\ retrieval.pc = "returned"
    /\ retrieval.audience = "farmers"
    /\ Len(retrieval.searches) = 3
    /\ retrieval.searches[2].category_filter = Some("best_practice")

\* Stage i of run r ran without setting error.
StageSucceeded(r, i) == Len(log[r]) >= i /\ ~log[r][i].set_error

\* C21: when the knowledge store fails during the searches of the
\* KnowledgeRetrieval stage, the searches yield empty lists: the stage sets
\* no error and populates the retrieved-knowledge field (with an empty
\* list), and when the other stages succeed the run returns a success
\* result.
C21_StoreFailureIsNotFatal ==
    \A r \in Runs :
        Len(log[r]) >= 4 /\ "search_raised" \in log[r][4].calls =>
            /\ ~log[r][4].set_error
            /\ log[r][4].wrote_output
            /\ state[r].rag_knowledge = Some(<<>>)
            /\ pc[r] = "done" /\ (\A i \in 1..5 : StageSucceeded(r, i)) =>
                  /\ outcome[r].kind = "return"
                  /\ outcome[r].value[1].success

\* A run whose knowledge store failed has returned a success result.
C21_Witness ==
    \E r \in Runs :
        /\ pc[r] = "done"
        /\ "search_raised" \in log[r][4].calls
        /\ outcome[r].kind = "return"
        /\ outcome[r].value[1].success
        /\ outcome[r].value[1].relevant_knowledge = <<>>

\* The searches of run r were made, the store answered each of them, and
\* none returned an item.
EmptyRetrieval(r) ==
    /\ Len(log[r]) >= 4
    /\ log[r][4].calls = {"search"}
    /\ state[r].rag_knowledge \in {None, Some(<<>>)}

\* C22: when every knowledge search of a run returns no items, the
\* retrieval stage sets no error, and when all other stages succeed
\* run_analysis returns a success result whose retrieved-knowledge list is
\* empty.
C22_EmptyRetrievalIsSuccess ==
    \A r \in Runs :
        EmptyRetrieval(r) =>
            /\ ~log[r][4].set_error
            /\ pc[r] = "done" /\ (\A i \in {1, 2, 3, 5} : StageSucceeded(r, i)) =>
                  /\ outcome[r].kind = "return"
                  /\ outcome[r].value[1].success
                  /\ outcome[r].value[1].relevant_knowledge = <<>>
                  /\ outcome[r].value[1].error_message = None

\* A run in which the store answered and found nothing has returned a
\* success result.
C22_Witness ==
    \E r \in Runs :
        /\ pc[r] = "done"
        /\ EmptyRetrieval(r)
        /\ \A i \in 1..5 : StageSucceeded(r, i)
        /\ outcome[r].kind = "return"
        /\ outcome[r].value[1].relevant_knowledge = <<>>

\* The records the validator went through.
ValidatedRecords ==
    IF quality.input.type = "WeatherData"
    THEN <<quality.input.data>>
    ELSE quality.input.data

\* The checks that applied: one for every checked field a record has.
ApplicableChecks ==
    {<<i, f>> \in (1..Len(ValidatedRecords)) \X CheckedFields :
        f \in DOMAIN ValidatedRecords[i]}

\* C26: the score of the rule-based validator lies in [0, 1], equals
\* 1 - flagged/total_checked when at least one check applied, and is 1 when
\* no check applied (no record, or records with none of the four fields).
C26_ValidatorScoreInRange ==
    quality.pc = "done" =>
        LET v == quality.validation
        IN  /\ v.total_checks = Cardinality(ApplicableChecks)
            /\ v.issues <= v.total_checks
            /\ v.score.den > 0
            /\ 0 <= v.score.num /\ v.score.num <= v.score.den
            /\ v.total_checks > 0 =>
                  v.score.num * v.total_checks
                      = (v.total_checks - v.issues) * v.score.den
            /\ v.total_checks = 0 => v.score.num = v.score.den

\* Two records were validated, some checks flagged a reading and others did
\* not.
C26_Witness ==
    /\ quality.pc = "done"
    /\ Len(ValidatedRecords) = 2
    /\ quality.validation.issues > 0
    /\ quality.validation.issues < quality.validation.total_checks
    /\ quality.validation.score = Frac(2, 3)

\* C27: for every parsed score and every rule-based score the DataQuality
\* processor returns a result whose quality score is the maximum of the two
\* and lies in [0, 1], parsed values above 1 or below 0 included.
C27_MergedScoreReturnedInRange ==
    quality.pc = "done" =>
        /\ quality.result.kind = "return"
        /\ LET score == quality.result.value[1].quality_score
           IN  /\ score = Max2(quality.parsed, quality.validation.score)
               /\ AtLeast(score, Frac(0, 1))
               /\ AtLeast(Frac(1, 1), score)

\* The six alerts in the order the specification lists them.
RiskOrder ==
    <<"HEAT WARNING", "FROST WARNING", "STORM ALERT", "HIGH WIND WARNING",
      "HIGH HUMIDITY", "DRY CONDITIONS">>

\* The sum of the humidities of the series.
HumidityTotal ==
    LET f == risks.forecasts
    IN  IF Len(f) = 1 THEN f[1].humidity ELSE f[1].humidity + f[2].humidity

\* The condition of an alert, stated on the series itself.
RiskCondition(alert) ==
    LET f == risks.forecasts
        n == Len(f)
    IN  CASE alert = "HEAT WARNING" -> \E i \in 1..n : f[i].temperature > 35
          [] alert = "FROST WARNING" -> \E i \in 1..n : f[i].temperature < 0
          [] alert = "STORM ALERT" ->
                \E i \in 1..n : f[i].weather_condition \in {"Thunderstorm", "Squall"}
          [] alert = "HIGH WIND WARNING" -> \E i \in 1..n : f[i].wind_speed > 20
          [] alert = "HIGH HUMIDITY" -> HumidityTotal > 85 * n
          [] alert = "DRY CONDITIONS" ->
                /\ \A i \in 1..n :
                      f[i].weather_condition \notin {"Rain", "Drizzle", "Thunderstorm"}
                /\ HumidityTotal < 50 * n

\* C28: the risk-alert list is the subsequence of heat, frost, storm, high
\* wind, high humidity, drought made of the alerts whose own condition
\* holds: each alert is present exactly when its condition holds, whatever
\* the other five conditions are.
C28_RiskAlertsInOrder ==
    risks.pc = "assessed" =>
        risks.alerts = SelectSeq(RiskOrder, RiskCondition)

\* A series whose hottest forecast is exactly 35 degrees and that raises
\* the frost, storm, wind and drought alerts, but no heat alert.
C28_Witness ==
    /\ risks.pc = "assessed"
    /\ \E i \in 1..Len(risks.forecasts) : risks.forecasts[i].temperature = 35
    /\ risks.alerts = <<"FROST WARNING", "STORM ALERT", "HIGH WIND WARNING",
                        "DRY CONDITIONS">>

\* A call of the knowledge store made for the statistics failed.
StoreFailed ==
    status.store.get_collection = "error" \/ status.store.scroll = "error"

\* C30: the status call always returns a report, in which weather_service
\* is "error" exactly when the geocoding probe failed and rag_service is
\* "error" exactly when the statistics call of the knowledge store failed,
\* for all four combinations of the two.
C30_ProbesReportedIndependently ==
    status.pc = "returned" =>
        /\ status.report # None
        /\ status.report[1].workflow = "operational"
        /\ status.report[1].weather_service = "error" <=> status.geocoding # "ok"
        /\ status.report[1].rag_service = "error" <=> StoreFailed

\* The rank pair of the recommendation with the given title.
RankOf(title) ==
    LET r == checklist.recommendations[title]
    IN  <<PriorityRank(r.priority), TimingRank(r.timing)>>

\* Rank pair a comes before rank pair b.
RankBefore(a, b) ==
    a[1][1] < b[1][1] \/ (a[1][1] = b[1][1] /\ a[2][1] < b[2][1])

\* The entries of list are the recommendations in non-decreasing order of
\* rank, equal ranks in input order, and nothing left out ranks before an
\* entry.
OrderedByRank(list) ==
    LET n == Len(checklist.recommendations)
        titles == {list[i].title : i \in 1..Len(list)}
    IN  /\ Len(list) = IF n < 10 THEN n ELSE 10
        /\ \A i \in 1..Len(list) : list[i].title \in 1..n
        /\ \A i, j \in 1..Len(list) :
              i < j =>
                  \/ RankBefore(RankOf(list[i].title), RankOf(list[j].title))
                  \/ /\ RankOf(list[i].title) = RankOf(list[j].title)
                     /\ list[i].title < list[j].title
        /\ \A t \in (1..n) \ titles :
              \A i \in 1..Len(list) :
                  \/ RankBefore(RankOf(list[i].title), RankOf(t))
                  \/ RankOf(list[i].title) = RankOf(t) /\ list[i].title < t

\* C29: for every list of n recommendations the action checklist has
\* min(10, n) entries, the recommendations in non-decreasing order of
\* (priority rank, timing rank), recommendations of equal rank in input
\* order.
C29_ChecklistOrderedByRank ==
    checklist.pc = "done" =>
        /\ checklist.result.kind = "return"
        /\ OrderedByRank(checklist.result.value[1])

\* The answer is a JSON array of objects.
ArrayOfObjects(answer) ==
    /\ answer.call = "ok"
    /\ answer.json # None
    /\ answer.json[1].t = "array"
    /\ \A i \in 1..Len(answer.json[1].items) : answer.json[1].items[i].t = "object"

\* An insight record of the answer violates the schema: its priority is
\* no string or its confidence is no number within [0, 1].
ViolatesInsightSchema(item) ==
    \/ /\ "priority" \in DOMAIN item.fields
       /\ item.fields["priority"].t # "str"
    \/ /\ "confidence" \in DOMAIN item.fields
       /\ \/ item.fields["confidence"].t # "num"
          \/ ~AtLeast(item.fields["confidence"].n, Frac(0, 1))
          \/ ~AtLeast(Frac(1, 1), item.fields["confidence"].n)

\* The structured extraction of insights failed: backend error, no JSON,
\* JSON of the wrong shape, or a record that violates the schema.
InsightExtractionFailed(answer) ==
    \/ ~ArrayOfObjects(answer)
    \/ \E i \in 1..Len(answer.json[1].items) :
          ViolatesInsightSchema(answer.json[1].items[i])

\* C23: in the forecast stage, once the narrative call has succeeded,
\* every failure of the structured extraction leads to the line-based
\* fallback, and the stage populates its result without setting error.
C23_ExtractionFailureFallsBack ==
    (/\ processor.pc \in {"agent_done", "done"}
     /\ processor.agent = "forecast"
     /\ processor.path # "none"
     /\ InsightExtractionFailed(processor.answer)) =>
        /\ processor.path = "fallback"
        /\ processor.items = _extract_insights(processor.narrative[1])
        /\ processor.pc = "done" =>
              (processor.output # None /\ processor.error = None)

\* C24: in the advice stage, once the advice narrative exists, no answer
\* to the structured extraction makes the stage fail: the stage populates
\* the advice result and does not set error.
C24_NoExtractionAnswerFailsAdvice ==
    (/\ processor.pc = "done"
     /\ processor.agent = "advice"
     /\ processor.path # "none") =>
        (processor.output # None /\ processor.error = None)

\* C25: when a narrative-producing call (the data assessment, the
\* forecast narrative, the advice narrative or a meta-generation of an
\* audience prompt) fails, the stage sets error to its own message, leaves
\* its output absent and returns normally.
C25_NarrativeFailureSetsStageError ==
    (processor.pc = "done" /\ processor.failed \in {"meta", "narrative"}) =>
        /\ processor.node = "returned"
        /\ processor.output = None
        /\ processor.error # None
        /\ processor.error[1][1] =
              (CASE processor.agent = "data" -> "Data analysis failed: "
                 [] processor.agent = "forecast" -> "Forecast analysis failed: "
                 [] OTHER -> "Advice generation failed: ")

C25_Witness ==
    /\ processor.pc = "done"
    /\ processor.agent = "advice"
    /\ processor.failed = "meta"
    /\ processor.error = Some(<<"Advice generation failed: ", "LLMError">>)

\* C31: after the initialization of the knowledge store has completed
\* (no call to the store having failed), a store that held no documents
\* beforehand holds the reference corpus, once each, and a store that held
\* documents is unchanged.
C31_EmptyStoreIsSeeded ==
    (rag_service.pc = "up" /\ rag_service.init = "done" /\ ~rag_service.init_failed) =>
        IF rag_service.before.others = 0 /\ rag_service.before.copies = NoCopies
        THEN /\ rag_service.backend.exists
             /\ rag_service.backend.copies = [d \in Corpus |-> 1]
             /\ rag_service.backend.others = 0
        ELSE rag_service.backend = rag_service.before

\* C37: every search of a pipeline run is served after the initialization
\* task has run to completion.
C37_NoSearchBeforeInitialization ==
    rag_service.pc = "up" => \A s \in rag_service.searches : s.init = "done"

C37_Witness ==
    /\ rag_service.pc = "up"
    /\ \E s \in rag_service.searches :
          /\ s.init = "done"
          /\ s.backend.copies = [d \in Corpus |-> 1]
    /\ rag_service.before = Backend(FALSE, NoCopies, 0)

\* C32: every Insight of a forecast-insight result has its category, its
\* priority and its time horizon within the enumerated sets, whether the
\* structured extraction or the line parser produced it.
C32_InsightFieldsEnumerated ==
    (/\ processor.pc = "done"
     /\ processor.agent = "forecast"
     /\ processor.output # None) =>
        \A i \in 1..Len(processor.output[1].items) :
            LET insight == processor.output[1].items[i]
            IN  /\ insight.category \in {"agriculture", "disaster", "general"}
                /\ insight.priority \in {"critical", "high", "medium", "low"}
                /\ insight.time_horizon \in {"immediate", "24h", "3-day", "weekly"}

\* C33: every Recommendation of an advice result has its target audience,
\* its action type, its priority and its timing within the enumerated
\* sets, whether the structured extraction or the section parser produced
\* it.
C33_RecommendationFieldsEnumerated ==
    (/\ processor.pc = "done"
     /\ processor.agent = "advice"
     /\ processor.output # None) =>
        \A i \in 1..Len(processor.output[1].items) :
            LET rec == processor.output[1].items[i]
            IN  /\ rec.target_audience \in {"farmers", "officials", "general_public"}
                /\ rec.action_type \in
                       {"immediate", "preparation", "planning", "monitoring"}
                /\ rec.priority \in {"critical", "high", "medium", "low"}
                /\ rec.timing \in {"now", "within_24h", "this_week", "next_week"}

\* The alerts whose text holds a keyword of the family.
FamilyAlerts(family) ==
    CASE family = "storm/wind" -> {"STORM ALERT", "HIGH WIND WARNING"}
      [] family = "flood/rain" -> {"DRY CONDITIONS"}
      [] family = "heat/drought" -> {"HEAT WARNING", "HIGH HUMIDITY"}
      [] OTHER -> {"FROST WARNING"}

FamilyContact(family) ==
    CASE family = "storm/wind" ->
             "Local emergency management office for storm preparations"
      [] family = "flood/rain" ->
             "Agricultural extension office for flood mitigation advice"
      [] family = "heat/drought" ->
             "Local health department for heat safety information"
      [] OTHER -> "Agricultural extension for crop protection guidance"

Families == {"storm/wind", "flood/rain", "heat/drought", "frost/cold"}

Triggered(family) ==
    \E i \in 1..Len(contacts.risk_alerts) :
        contacts.risk_alerts[i] \in FamilyAlerts(family)

\* C34: the contact suggestions hold the three general contacts, no entry
\* twice, and the contact of a keyword family exactly when the text of
\* some alert holds a keyword of the family; there are 3 plus the number
\* of triggered families of them.
C34_ContactsMatchFamilies ==
    contacts.pc = "done" =>
        LET listed == {contacts.suggestions[i] : i \in 1..Len(contacts.suggestions)}
        IN  /\ {"Local weather service for updated forecasts",
                "Agricultural extension office for farming guidance",
                "Community emergency coordinator for disaster preparation"}
                   \subseteq listed
            /\ Cardinality(listed) = Len(contacts.suggestions)
            /\ \A family \in Families :
                  FamilyContact(family) \in listed <=> Triggered(family)
            /\ Len(contacts.suggestions) =
                   3 + Cardinality({family \in Families : Triggered(family)})
            /\ Len(contacts.suggestions) \in 3..7

C34_Witness ==
    /\ contacts.pc = "done"
    /\ Triggered("frost/cold")
    /\ Triggered("flood/rain")
    /\ ~Triggered("storm/wind")
    /\ Len(contacts.suggestions) = 5

\* The error of run r stays non-empty over the step.
ErrorKept(r) == TruthyStr(state[r].error) => TruthyStr(state'[r].error)

\* A success result of run r comes from five stages none of which set
\* error, and holds the three results and a list of knowledge.
SuccessIsComplete(r) ==
    (outcome[r].kind = "return" /\ outcome[r].value[1].success) =>
        /\ Len(log[r]) = 5
        /\ \A i \in 1..5 : ~log[r][i].set_error
        /\ state[r].error = None
        /\ outcome[r].value[1].data_quality # None
        /\ outcome[r].value[1].forecast_insights # None
        /\ outcome[r].value[1].recommendations # None
        /\ state[r].rag_knowledge # None
        /\ outcome[r].value[1].relevant_knowledge = state[r].rag_knowledge[1]

\* C35: within one run error never goes from non-empty back to empty, so
\* a success result is returned only when all five stages completed
\* without setting error, and every success result holds the data-quality,
\* forecast-insight and advice results and a list of knowledge.
C35_ErrorIsNeverCleared ==
    /\ [][\A r \in Runs : ErrorKept(r)]_vars
    /\ [](\A r \in Runs : SuccessIsComplete(r))

C35_Witness ==
    \E r \in Runs :
        /\ pc[r] = "done"
        /\ outcome[r].kind = "return"
        /\ outcome[r].value[1].success
        /\ Len(log[r]) = 5

\* Everything the workflow holds for run r.
RunRecord(r) == <<pc[r], state[r], log[r], outcome[r]>>

\* The states run r can have after its next step, computed from its own
\* location, its own state and the responses to its own calls.
OwnResults(r) ==
    CASE pc[r] = "idle" ->
           {InitialState(call.locations[r], call.audience,
                         call.latitude, call.longitude)}
      [] pc[r] = "fetch_weather" ->
           {_fetch_weather_data(state[r], o).st :
                o \in FetchOutcomes(state[r].location)}
      [] pc[r] = "analyze_data" ->
           {_analyze_data_quality(state[r], o).st : o \in LlmOutcomes}
      [] pc[r] = "forecast_analysis" ->
           {_analyze_forecast(state[r], o).st : o \in LlmOutcomes}
      [] pc[r] = "retrieve_knowledge" ->
           {_retrieve_relevant_knowledge(state[r], o).st : o \in RagOutcomes}
      [] pc[r] = "generate_advice" ->
           {_generate_recommendations(state[r], o).st : o \in LlmOutcomes}
      [] OTHER -> {state[r]}

\* C36: the runs of one batch share no per-request state: a step of run r
\* changes the record of run r only, and the state it leaves depends only on
\* the location of run r, the state of run r and the response to the call of
\* run r, under every interleaving of the runs.
C36_RunsShareNoState ==
    [][\A r \in Runs :
          RunRecord(r)' # RunRecord(r) =>
              /\ \A q \in Runs \ {r} : RunRecord(q)' = RunRecord(q)
              /\ state'[r] \in OwnResults(r)
              /\ outcome'[r] \in {outcome[r],
                                  AssembleResult(call.locations[r], state[r])}]_vars

\* Two runs of one batch are in progress at different stages, one with an
\* error and one without.
C36_Witness ==
    \E r, q \in Runs :
        /\ call.op = "run_batch_analysis"
        /\ pc[r] \notin {"idle", "done"}
        /\ pc[q] \notin {"idle", "done"}
        /\ Len(log[r]) > Len(log[q])
        /\ Len(log[q]) > 0
        /\ state[q].error # None
        /\ state[r].error = None

\* Calls c and d are requests to the same stage processor for the same
\* audience.
SameRequest(c, d) ==
    /\ prompts.calls[c].agent = prompts.calls[d].agent
    /\ prompts.calls[c].audience = prompts.calls[d].audience

\* Call c began after a request like it had failed and before any request
\* like it had stored a generated prompt.
BeganAfterFailureOnly(c) ==
    /\ prompts.calls[c].pc # "idle"
    /\ \E d \in prompts.calls[c].failed : SameRequest(c, d)
    /\ ~\E e \in prompts.calls[c].after :
           SameRequest(c, e) /\ prompts.calls[e].issued

\* C38: a failed meta-generation call leaves the cache of its stage
\* processor unchanged, and the next request for the same audience issues
\* the meta-generation call again instead of returning a cached value.
C38_FailureLeavesCacheUnchanged ==
    /\ [][\A c \in Calls :
             prompts.calls[c].pc = "awaiting_llm" /\ prompts'.calls[c].pc = "raised"
                 => prompts'.cache = prompts.cache]_vars
    /\ [](prompts # NotModelled =>
             \A c \in Calls :
                 BeganAfterFailureOnly(c) =>
                     /\ prompts.calls[c].entry_at_start = None
                     /\ prompts.calls[c].issued
                     /\ prompts.calls[c].pc = "returned" =>
                            prompts.calls[c].result # None)

\* A request failed, and the next request for the same audience has issued
\* the meta-generation call and has stored and returned its own prompt.
C38_Witness ==
    /\ prompts # NotModelled
    /\ \E c \in Calls :
          /\ BeganAfterFailureOnly(c)
          /\ prompts.calls[c].pc = "returned"
          /\ prompts.calls[c].issued
          /\ prompts.cache[prompts.calls[c].agent][prompts.calls[c].audience]
                 = prompts.calls[c].result

\* The stage invocations of run r so far are the first stages, each once and
\* in order; a run that has left the workflow has had all five.
StagesInOrder(r) ==
    /\ Len(log[r]) <= Len(StageOrder)
    /\ \A i \in 1..Len(log[r]) : log[r][i].node = StageOrder[i]
    /\ pc[r] \in {END, "done"} => Len(log[r]) = Len(StageOrder)
    /\ pc[r] \in Nodes => pc[r] = StageOrder[Len(log[r]) + 1]

\* Every run of the call has completed, and so has the batch when the call
\* is a batch.
Completed ==
    /\ \A r \in Active : pc[r] = "done"
    /\ call.op = "run_batch_analysis" => batch # Pending

\* C39: when every external call eventually returns or fails, every run
\* eventually completes, after exactly five stage invocations in the order
\* of the edges and with no stage invoked twice, and a batch eventually
\* completes once all of its runs have completed.
C39_EveryRunCompletesAfterFiveStages ==
    /\ [](\A r \in Runs : StagesInOrder(r))
    /\ <>Completed

\* A batch has completed: each of its runs has had its five stages, one of
\* them with a stage error and one without.
C39_Witness ==
    /\ call.op = "run_batch_analysis"
    /\ batch # Pending
    /\ \A r \in Active : pc[r] = "done" /\ Len(log[r]) = 5
    /\ \E r \in Active : state[r].error # None
    /\ \E r \in Active : state[r].error = None

====
